---- MODULE Spec2Model ----
(***************************************************************************)
(* Model of the DMRC chatbot's in-memory session store                     *)
(* (src/utils/session_memory.py): UserSession, SessionMemory and the       *)
(* wall clock they read through time.time(); of the callers that run its   *)
(* methods on worker threads (src/api/main.py); of the FAQ retriever       *)
(* (src/utils/retriever.py); and of the /chat endpoint (src/api/main.py)   *)
(* with the intent filter it consults (src/utils/intent_filter.py).        *)
(* Also of the conversation cache (src/utils/memory_cache.py), which none  *)
(* of the above uses.                                                      *)
(*                                                                         *)
(* Conventions                                                             *)
(*  - Python dicts are functions; the empty dict is <<>>.  The dict        *)
(*    self.sessions keeps insertion order, which the sweep and min()       *)
(*    iterate in: `order` is that iteration order.                         *)
(*  - Python floats (confidence, avg_confidence) are rationals             *)
(*    [num, den] in lowest terms: arithmetic is exact, rounding of the     *)
(*    IEEE representation is outside the model.                            *)
(*  - Every time.time() call is one clock read.  The clock never goes      *)
(*    back; it may advance between two reads of the same call, and the     *)
(*    time that passes between two calls shows in the next call's first    *)
(*    read.                                                                *)
(***************************************************************************)
EXTENDS Integers, Sequences, FiniteSets, TLC

(***************************************************************************)
(* Bounds of the model                                                     *)
(***************************************************************************)
MaxTime == 1            \* the clock stops advancing here
MaxCreated == 3         \* cap on total_sessions_created
MaxConversations == 1   \* cap on total_conversations in Spec
MaxCount == 2           \* the count argument of the reads is in 0..MaxCount
Prefill == 18           \* appends already made in the initial state of SpecDeep
MaxDeepConversations == 23  \* cap on total_conversations in SpecDeep
MaxResetConversations == 4  \* cap on total_conversations in SpecReset
MaxThreadCalls == 1         \* calls each thread begins in SpecThreads
MaxCorpus == 2              \* longest list in the vector store file
MaxK == 3                   \* the k argument of retrieve_top_k is in 0..MaxK
MaxChatConversations == 2   \* cap on total_conversations in SpecChat
MaxChatCreated == 1         \* cap on total_sessions_created in SpecChat
MaxHeldConversations == 1   \* cap on total_conversations in SpecHeld
MaxPresenceConversations == 2   \* cap on total_conversations in SpecPresence
MaxPresenceCreated == 3         \* cap on total_sessions_created in SpecPresence
MaxLazyConversations == 2       \* cap on total_conversations in SpecLazy
MaxLazyCreated == 3             \* cap on total_sessions_created in SpecLazy

(***************************************************************************)
(* Program constants and input domains                                     *)
(***************************************************************************)
HistoryMaxLen == 20     \* deque(maxlen=20)

Keys == {"A", "B", "C"}
MaxSessionsArgs == {1, 2}   \* values of the max_sessions argument
TtlSecondsArgs == {0, 1}     \* values of the ttl_seconds argument
DefaultContextCount == 3    \* get_conversation_context(session_id, count=3)
DefaultRecentCount == 5     \* get_recent_conversations(session_id, count=5)
None == "None"
Queries == {"q1"}
Responses == {"r1"}
Sources == {"dmrc_rag"}
PrefKeys == {"lang"}
PrefVals == {"en"}

Rat(n, d) == [num |-> n, den |-> d]
Confidences == {Rat(0, 1), Rat(4, 5)}     \* 0.0 and 0.8

EmptyDict == [k \in {} |-> 0]

Min(a, b) == IF a <= b THEN a ELSE b

(***************************************************************************)
(* Exact arithmetic standing for float arithmetic                          *)
(***************************************************************************)
RECURSIVE GCD(_, _)
GCD(a, b) == IF b = 0 THEN a ELSE GCD(b, a % b)

Norm(n, d) == LET g == GCD(n, d) IN IF n = 0 THEN Rat(0, 1) ELSE Rat(n \div g, d \div g)

\* (current_avg * (total - 1) + confidence) / total
RunningAverage_window(current_avg, total, confidence) ==
    Norm((current_avg.num * (Min(total, 20) - 1)) * confidence.den
             + confidence.num * current_avg.den,
         current_avg.den * confidence.den * Min(total, 20))
RunningAverage(current_avg, total, confidence) ==
    Norm((current_avg.num * (total - 1)) * confidence.den + confidence.num * current_avg.den,
         current_avg.den * confidence.den * total)

VARIABLES
    sessions,       \* self.sessions: session_id -> UserSession
    order,          \* iteration (insertion) order of self.sessions
    stats,          \* self.stats
    max_sessions,   \* self.max_sessions
    ttl_seconds,    \* self.ttl_seconds
    now,            \* the wall clock: value of the latest time.time()
    call,           \* the last completed call: operation, arguments, return value
    appended,       \* history variable: per key, the entries appended since the
                    \* session was created or last reset
    threads,        \* the callers that are inside a call of the store: position
                    \* in the method's code and local variables of each
    retriever,      \* utils/retriever.py: the vector store file it loads and its
                    \* module globals corpus, embeddings, answers
    client,         \* api/main.py: whether the module global client is a
                    \* genai.Client (an API key was set) or None
    held,           \* the object a caller got from get_session_info or
                    \* get_user_preferences and still holds
    conversation_cache, \* utils/memory_cache.py: the ConversationCache
                    \* instance (max_size, ttl_seconds, cache, timestamps)
    cache_log       \* history variable: the keys of the cache in the order of
                    \* their last use, and the time of each key's last set

vars == <<sessions, order, stats, max_sessions, ttl_seconds, now, call, appended,
          threads, retriever, client, held, conversation_cache, cache_log>>

(***************************************************************************)
(* The clock                                                               *)
(***************************************************************************)
\* The values n successive time.time() calls inside one operation can return.
ClockReads(n) ==
    {ts \in [1..n -> now..MaxTime] :
        \A i \in 1..(n - 1) : ts[i] <= ts[i + 1]}

LastRead(ts) == IF Len(ts) = 0 THEN now ELSE ts[Len(ts)]

(***************************************************************************)
(* ConversationEntry and UserSession                                       *)
(***************************************************************************)
ConversationEntry(user_query, bot_response, timestamp, source, confidence) ==
    [user_query |-> user_query, bot_response |-> bot_response,
     timestamp |-> timestamp, source |-> source, confidence |-> confidence,
     context_used |-> <<>>, metadata |-> EmptyDict]

UserSession(session_id, created_at, last_accessed) ==
    [session_id |-> session_id, created_at |-> created_at,
     last_accessed |-> last_accessed, conversation_history |-> <<>>,
     user_preferences |-> EmptyDict, session_stats |-> EmptyDict]

\* deque(maxlen=20).append: a full deque drops its leftmost item
deque_append_unbounded(history, entry) == Append(history, entry)
deque_append(history, entry) ==
    IF Len(history) >= HistoryMaxLen
    THEN Append(Tail(history), entry)
    ELSE Append(history, entry)

update_stats(session_stats, entry) ==
    LET s1 == IF "total_conversations" \notin DOMAIN session_stats
              THEN session_stats @@ ("total_conversations" :> 0) ELSE session_stats
        s2 == IF "avg_confidence" \notin DOMAIN s1
              THEN s1 @@ ("avg_confidence" :> Rat(0, 1)) ELSE s1
        s3 == [s2 EXCEPT !["total_conversations"] = @ + 1]
        current_avg == s3["avg_confidence"]
        total == s3["total_conversations"]
    IN  [s3 EXCEPT !["avg_confidence"] = RunningAverage(current_avg, total, entry.confidence)]

\* UserSession.add_conversation; t is its time.time()
UserSession_add_conversation(session, entry, t) ==
    [session EXCEPT !.conversation_history = deque_append(@, entry),
                    !.last_accessed = t,
                    !.session_stats = update_stats(@, entry)]

\* list(self.conversation_history)[-count:]
UserSession_get_recent_conversations(session, count) ==
    LET h == session.conversation_history
        n == Len(h)
        start == IF count = 0 THEN 1
                 ELSE IF count > 0 THEN (IF n - count < 0 THEN 0 ELSE n - count) + 1
                 ELSE Min(0 - count, n) + 1
    IN  SubSeq(h, start, n)

RECURSIVE ContextLines(_)
ContextLines(recent) ==
    IF recent = <<>> THEN <<>>
    ELSE <<recent[1].user_query, recent[1].bot_response>> \o ContextLines(Tail(recent))

\* The returned text as its sequence of lines; "" is the empty sequence.
UserSession_get_conversation_context(session, count) ==
    LET recent == UserSession_get_recent_conversations(session, count)
    IN  IF recent = <<>> THEN <<>>
        ELSE <<"Recent conversation context:">> \o ContextLines(recent) \o <<"">>

is_expired_never(session, ttl, t) == FALSE
is_expired_inclusive(session, ttl, t) == t - session.last_accessed >= ttl
is_expired(session, ttl, t) == t - session.last_accessed > ttl

\* datetime.fromtimestamp(t).isoformat()
IsoFormat(t) == <<"iso", t>>

UserSession_get_session_info(session) ==
    [session_id |-> session.session_id,
     created_at |-> IsoFormat(session.created_at),
     last_accessed |-> IsoFormat(session.last_accessed),
     total_conversations |-> Len(session.conversation_history),
     stats |-> session.session_stats,
     preferences |-> session.user_preferences]

(***************************************************************************)
(* SessionMemory: the operations as functions of the store                 *)
(*   st = [sessions, order, stats]                                         *)
(***************************************************************************)
Store == [sessions |-> sessions, order |-> order, stats |-> stats]

Restrict(f, S) == [k \in S |-> f[k]]
Without(ord, removed) == SelectSeq(ord, LAMBDA k : k \notin removed)

\* _cleanup_expired_sessions; ts[i] is the time.time() of the is_expired
\* call on the i-th session in iteration order
cleanup_expired_sessions(st, ttl, ts) ==
    LET expired_sessions ==
            {st.order[i] : i \in {j \in 1..Len(st.order) :
                                    is_expired(st.sessions[st.order[j]], ttl, ts[j])}}
    IN  [sessions |-> Restrict(st.sessions, DOMAIN st.sessions \ expired_sessions),
         order |-> Without(st.order, expired_sessions),
         stats |-> [st.stats EXCEPT !.total_sessions_expired = @ + Cardinality(expired_sessions)]]

\* min(self.sessions.keys(), key=last_accessed): the first key in iteration
\* order among those with the least last_accessed
oldest_session_id(st) ==
    LET la(i) == st.sessions[st.order[i]].last_accessed
        i0 == CHOOSE i \in 1..Len(st.order) :
                  /\ \A j \in 1..Len(st.order) : la(i) <= la(j)
                  /\ \A j \in 1..(i - 1) : la(j) > la(i)
    IN  st.order[i0]

remove_oldest_session_newest(st) ==
    IF st.order = <<>> THEN st
    ELSE LET k == CHOOSE k \in DOMAIN st.sessions :
                      \A j \in DOMAIN st.sessions :
                          st.sessions[j].last_accessed <= st.sessions[k].last_accessed
         IN  [st EXCEPT !.sessions = Restrict(@, DOMAIN @ \ {k}),
                        !.order = Without(@, {k})]
\* the eviction counted in total_sessions_expired
remove_oldest_session_counted(st) ==
    IF st.order = <<>> THEN st
    ELSE [st EXCEPT !.sessions = Restrict(@, DOMAIN @ \ {oldest_session_id(st)}),
                    !.order = Without(@, {oldest_session_id(st)}),
                    !.stats.total_sessions_expired = @ + 1]
remove_oldest_session(st) ==
    IF st.order = <<>> THEN st
    ELSE [st EXCEPT !.sessions = Restrict(@, DOMAIN @ \ {oldest_session_id(st)}),
                    !.order = Without(@, {oldest_session_id(st)})]

\* len(self.sessions) >= self.max_sessions
at_capacity_strict(n, max) == n > max
at_capacity(n, max) == n >= max

\* Number of time.time() calls create_session makes: none when the key is
\* present, else one per session swept and two for the new UserSession.
create_session_reads(st, session_id) ==
    IF session_id \in DOMAIN st.sessions THEN 0 ELSE Len(st.order) + 2

\* create_session once session_id is a string (given, or the uuid4 drawn)
create_session_overwrite(st, max, ttl, session_id, ts) ==
    LET n == Len(st.order)
        rd == IF Len(ts) = 0 THEN [i \in 1..(n + 2) |-> now] ELSE ts
        swept == cleanup_expired_sessions(st, ttl, rd)
        room == IF at_capacity(Len(swept.order), max)
                THEN remove_oldest_session(swept) ELSE swept
    IN  [sessions |-> (session_id :> UserSession(session_id, rd[n + 1], rd[n + 2])) @@ room.sessions,
         order |-> Append(Without(room.order, {session_id}), session_id),
         stats |-> [room.stats EXCEPT !.total_sessions_created = @ + 1]]
create_session_unswept(st, max, ttl, session_id, ts) ==
    IF session_id \in DOMAIN st.sessions THEN st
    ELSE LET n == Len(st.order)
             room == IF at_capacity(Len(st.order), max)
                     THEN remove_oldest_session(st) ELSE st
         IN  [sessions |-> room.sessions @@
                           (session_id :> UserSession(session_id, ts[n + 1], ts[n + 2])),
              order |-> Append(room.order, session_id),
              stats |-> [room.stats EXCEPT !.total_sessions_created = @ + 1]]
\* the capacity check and eviction first, the sweep after it
create_session_capacity_first(st, max, ttl, session_id, ts) ==
    IF session_id \in DOMAIN st.sessions THEN st
    ELSE LET n == Len(st.order)
             room == IF at_capacity(Len(st.order), max)
                     THEN remove_oldest_session(st) ELSE st
             rd == SelectSeq([i \in 1..n |-> <<st.order[i], ts[i]>>],
                             LAMBDA p : p[1] \in DOMAIN room.sessions)
             swept == cleanup_expired_sessions(room, ttl, [i \in 1..Len(rd) |-> rd[i][2]])
         IN  [sessions |-> swept.sessions @@
                           (session_id :> UserSession(session_id, ts[n + 1], ts[n + 2])),
              order |-> Append(swept.order, session_id),
              stats |-> [swept.stats EXCEPT !.total_sessions_created = @ + 1]]
create_session(st, max, ttl, session_id, ts) ==
    IF session_id \in DOMAIN st.sessions THEN st
    ELSE LET n == Len(st.order)
             swept == cleanup_expired_sessions(st, ttl, ts)
             room == IF at_capacity(Len(swept.order), max)
                     THEN remove_oldest_session(swept) ELSE swept
         IN  [sessions |-> room.sessions @@
                           (session_id :> UserSession(session_id, ts[n + 1], ts[n + 2])),
              order |-> Append(room.order, session_id),
              stats |-> [room.stats EXCEPT !.total_sessions_created = @ + 1]]

\* SessionMemory.add_conversation: the reads of the implicit create_session
\* come first, then the entry's timestamp, then UserSession.add_conversation's
add_conversation_nocount(st, max, ttl, session_id, user_query, bot_response, source, confidence, ts) ==
    LET c == create_session_reads(st, session_id)
        st1 == IF session_id \notin DOMAIN st.sessions
               THEN create_session(st, max, ttl, session_id, SubSeq(ts, 1, c)) ELSE st
        entry == ConversationEntry(user_query, bot_response, ts[c + 1], source, confidence)
    IN  [st1 EXCEPT !.sessions[session_id] = UserSession_add_conversation(@, entry, ts[c + 2]),
                    !.stats.total_conversations =
                        IF session_id \in DOMAIN st.sessions THEN @ + 1 ELSE @]
add_conversation(st, max, ttl, session_id, user_query, bot_response, source, confidence, ts) ==
    LET c == create_session_reads(st, session_id)
        st1 == IF session_id \notin DOMAIN st.sessions
               THEN create_session(st, max, ttl, session_id, SubSeq(ts, 1, c)) ELSE st
        entry == ConversationEntry(user_query, bot_response, ts[c + 1], source, confidence)
    IN  [st1 EXCEPT !.sessions[session_id] = UserSession_add_conversation(@, entry, ts[c + 2]),
                    !.stats.total_conversations = @ + 1]

\* The entry add_conversation builds from its arguments and reads
add_conversation_entry(st, session_id, user_query, bot_response, source, confidence, ts) ==
    ConversationEntry(user_query, bot_response,
                      ts[create_session_reads(st, session_id) + 1], source, confidence)

\* dict.update: the keys of preferences overwrite, the others stay
dict_update_replace(d, preferences) == preferences
dict_update(d, preferences) == preferences @@ d

\* update that leaves last_accessed alone
update_user_preferences_untouched(st, session_id, preferences, t) ==
    [st EXCEPT !.sessions[session_id].user_preferences = dict_update(@, preferences)]
update_user_preferences(st, session_id, preferences, t) ==
    [st EXCEPT !.sessions[session_id].user_preferences = dict_update(@, preferences),
               !.sessions[session_id].last_accessed = t]

\* reset by replacing the session with a new UserSession
reset_session_recreate(st, session_id, t) ==
    [st EXCEPT !.sessions[session_id] = UserSession(session_id, t, t)]
reset_session(st, session_id, t) ==
    [st EXCEPT !.sessions[session_id].conversation_history = <<>>,
               !.sessions[session_id].session_stats = EmptyDict,
               !.sessions[session_id].last_accessed = t]

\* delete that empties the whole map
delete_session_all(st, session_id) ==
    [st EXCEPT !.sessions = EmptyDict, !.order = <<>>]
delete_session(st, session_id) ==
    [st EXCEPT !.sessions = Restrict(@, DOMAIN @ \ {session_id}),
               !.order = Without(@, {session_id})]

get_all_sessions ==
    [i \in 1..Len(order) |-> UserSession_get_session_info(sessions[order[i]])]

get_memory_stats ==
    [total_sessions_created |-> stats.total_sessions_created,
     total_sessions_expired |-> stats.total_sessions_expired,
     total_conversations |-> stats.total_conversations,
     active_sessions |-> Cardinality(DOMAIN sessions),
     max_sessions |-> max_sessions,
     ttl_seconds |-> ttl_seconds]

\* No caller holds a returned object
NoHeld == [op |-> "none"]

\* utils/memory_cache.py is not imported by the session store, the retriever
\* or the API: where they run, the cache stays as constructed and unused
NoCache == [max_size |-> 50, ttl_seconds |-> 1800, cache |-> <<>>, timestamps |-> EmptyDict]
NoCacheLog == [recency |-> <<>>, last_set |-> EmptyDict]

(***************************************************************************)
(* Actions: one per call of the public interface                           *)
(***************************************************************************)
\* The history variable after a call that leaves newSessions in the store:
\* sessions removed or created by the call have nothing appended
Survivors(newSessions) ==
    [k \in Keys |-> IF k \in DOMAIN sessions /\ k \in DOMAIN newSessions
                    THEN appended[k] ELSE <<>>]

Install(st) ==
    /\ sessions' = st.sessions
    /\ order' = st.order
    /\ stats' = st.stats

\* create_session(arg); arg = None draws a uuid4, taken to be a key that is
\* not in the store
CreateSession(arg) ==
    \E session_id \in (IF arg = None THEN Keys \ DOMAIN sessions ELSE {arg}) :
    \E ts \in ClockReads(create_session_reads(Store, session_id)) :
        \E st \in {create_session(Store, max_sessions, ttl_seconds, session_id, ts)} :
            /\ Install(st)
            /\ now' = LastRead(ts)
            /\ call' = [op |-> "create_session", session_id |-> arg, ret |-> session_id]
            /\ appended' = Survivors(st.sessions)
            /\ UNCHANGED <<max_sessions, ttl_seconds, threads, retriever, client, held, conversation_cache, cache_log>>

AddConversation(session_id, user_query, bot_response, source, confidence) ==
    \E ts \in ClockReads(create_session_reads(Store, session_id) + 2) :
        \E st \in {add_conversation(Store, max_sessions, ttl_seconds, session_id,
                                   user_query, bot_response, source, confidence, ts)},
            entry \in {add_conversation_entry(Store, session_id, user_query,
                                            bot_response, source, confidence, ts)} :
            /\ Install(st)
            /\ now' = LastRead(ts)
            /\ call' = [op |-> "add_conversation", session_id |-> session_id, ret |-> TRUE]
            /\ appended' = [Survivors(st.sessions) EXCEPT ![session_id] = Append(@, entry)]
            /\ UNCHANGED <<max_sessions, ttl_seconds, threads, retriever, client, held, conversation_cache, cache_log>>

GetConversationContext(session_id, count) ==
    /\ call' = [op |-> "get_conversation_context", session_id |-> session_id, count |-> count,
                ret |-> IF session_id \notin DOMAIN sessions THEN <<>>
                        ELSE UserSession_get_conversation_context(sessions[session_id], count)]
    /\ UNCHANGED <<sessions, order, stats, max_sessions, ttl_seconds, now, appended, threads, retriever, client, held, conversation_cache, cache_log>>

GetRecentConversations(session_id, count) ==
    /\ call' = [op |-> "get_recent_conversations", session_id |-> session_id, count |-> count,
                ret |-> IF session_id \notin DOMAIN sessions THEN <<>>
                        ELSE UserSession_get_recent_conversations(sessions[session_id], count)]
    /\ UNCHANGED <<sessions, order, stats, max_sessions, ttl_seconds, now, appended, threads, retriever, client, held, conversation_cache, cache_log>>

\* update_user_preferences creating the session of an unknown key, the way
\* add_conversation does
UpdateUserPreferences_implicit(session_id, preferences) ==
    \E ts \in ClockReads(create_session_reads(Store, session_id) + 1) :
        \E st \in {create_session(Store, max_sessions, ttl_seconds, session_id,
                                  SubSeq(ts, 1, Len(ts) - 1))} :
            /\ Install(update_user_preferences(st, session_id, preferences, ts[Len(ts)]))
            /\ now' = LastRead(ts)
            /\ call' = [op |-> "update_user_preferences", session_id |-> session_id,
                        preferences |-> preferences, ret |-> TRUE]
            /\ appended' = Survivors(st.sessions)
            /\ UNCHANGED <<max_sessions, ttl_seconds, threads, retriever, client, held, conversation_cache, cache_log>>
UpdateUserPreferences(session_id, preferences) ==
    IF session_id \notin DOMAIN sessions
    THEN /\ call' = [op |-> "update_user_preferences", session_id |-> session_id,
                     preferences |-> preferences, ret |-> FALSE]
         /\ UNCHANGED <<sessions, order, stats, max_sessions, ttl_seconds, now, appended, threads, retriever, client, held, conversation_cache, cache_log>>
    ELSE \E ts \in ClockReads(1) :
            /\ Install(update_user_preferences(Store, session_id, preferences, ts[1]))
            /\ now' = LastRead(ts)
            /\ call' = [op |-> "update_user_preferences", session_id |-> session_id,
                        preferences |-> preferences, ret |-> TRUE]
            /\ UNCHANGED <<max_sessions, ttl_seconds, appended, threads, retriever, client, held, conversation_cache, cache_log>>

GetUserPreferences(session_id) ==
    /\ call' = [op |-> "get_user_preferences", session_id |-> session_id,
                ret |-> IF session_id \notin DOMAIN sessions THEN EmptyDict
                        ELSE sessions[session_id].user_preferences]
    /\ UNCHANGED <<sessions, order, stats, max_sessions, ttl_seconds, now, appended, threads, retriever, client, held, conversation_cache, cache_log>>

ResetSession(session_id) ==
    IF session_id \notin DOMAIN sessions
    THEN /\ call' = [op |-> "reset_session", session_id |-> session_id, ret |-> FALSE]
         /\ UNCHANGED <<sessions, order, stats, max_sessions, ttl_seconds, now, appended, threads, retriever, client, held, conversation_cache, cache_log>>
    ELSE \E ts \in ClockReads(1) :
            /\ Install(reset_session(Store, session_id, ts[1]))
            /\ now' = LastRead(ts)
            /\ call' = [op |-> "reset_session", session_id |-> session_id, ret |-> TRUE]
            /\ appended' = [appended EXCEPT ![session_id] = <<>>]
            /\ UNCHANGED <<max_sessions, ttl_seconds, threads, retriever, client, held, conversation_cache, cache_log>>

DeleteSession(session_id) ==
    IF session_id \notin DOMAIN sessions
    THEN /\ call' = [op |-> "delete_session", session_id |-> session_id, ret |-> FALSE]
         /\ UNCHANGED <<sessions, order, stats, max_sessions, ttl_seconds, now, appended, threads, retriever, client, held, conversation_cache, cache_log>>
    ELSE LET st == delete_session(Store, session_id)
         IN  /\ Install(st)
             /\ call' = [op |-> "delete_session", session_id |-> session_id, ret |-> TRUE]
             /\ appended' = Survivors(st.sessions)
             /\ UNCHANGED <<max_sessions, ttl_seconds, now, threads, retriever, client, held, conversation_cache, cache_log>>

\* Optional[Dict]: <<>> stands for None, <<info>> for the snapshot info
GetSessionInfo(session_id) ==
    /\ call' = [op |-> "get_session_info", session_id |-> session_id,
                ret |-> IF session_id \notin DOMAIN sessions THEN <<>>
                        ELSE <<UserSession_get_session_info(sessions[session_id])>>]
    /\ UNCHANGED <<sessions, order, stats, max_sessions, ttl_seconds, now, appended, threads, retriever, client, held, conversation_cache, cache_log>>

GetAllSessions ==
    /\ call' = [op |-> "get_all_sessions", ret |-> get_all_sessions]
    /\ UNCHANGED <<sessions, order, stats, max_sessions, ttl_seconds, now, appended, threads, retriever, client, held, conversation_cache, cache_log>>

GetMemoryStats ==
    /\ call' = [op |-> "get_memory_stats", ret |-> get_memory_stats]
    /\ UNCHANGED <<sessions, order, stats, max_sessions, ttl_seconds, now, appended, threads, retriever, client, held, conversation_cache, cache_log>>

(***************************************************************************)
(* Concurrent callers.  chat() is a plain `def` endpoint, which FastAPI    *)
(* runs on worker threads; session_memory.py takes no lock.  A caller is   *)
(* at a position of create_session or add_conversation; the interpreter    *)
(* can switch threads between two statements and between the load and the  *)
(* store of `x[k] += 1`.                                                   *)
(***************************************************************************)
Threads == {1, 2}

NoEntry == ConversationEntry("", "", 0, "", Rat(0, 1))

\* A caller outside any call; calls counts the calls it has begun.  orphan
\* tells that the UserSession the caller looked up at line 179 has since been
\* deleted from self.sessions or replaced there: the caller goes on writing to
\* that object, which the store no longer holds.
IdleThread(calls) ==
    [pc |-> "idle", op |-> "none", session_id |-> "", entry |-> NoEntry,
     expired_sessions |-> <<>>, oldest_session_id |-> "", reg |-> 0,
     current_avg |-> Rat(0, 1), total |-> 0, calls |-> calls, orphan |-> FALSE]

NoThreads == [t \in Threads |-> IdleThread(0)]

Quiescent == \A t \in Threads : threads[t].pc = "idle"

(***************************************************************************)
(* utils/retriever.py.  The vector store file holds what joblib.load       *)
(* returns: three lists, of questions, of embedding rows and of answers.   *)
(* Similarity scores are in hundredths (55 is 0.55).  The scores that      *)
(* cosine_similarity gives a query are an input: one per embedding row.    *)
(***************************************************************************)
Questions == <<"Q1", "Q2", "Q3", "Q4">>
EmbeddingRows == <<"e1", "e2", "e3", "e4">>
Answers == <<"a1", "a2", "a3", "a4">>
ScoreValues == {10, 55, 90}
Thresholds == {55}          \* retrieve_top_k(query, k=3, threshold=0.55)

\* The files the configured vector_store_path can hold
VectorStoreFiles ==
    {[status |-> st, corpus |-> <<>>, embeddings |-> <<>>, answers |-> <<>>] :
        st \in {"missing", "corrupt"}}
    \cup {[status |-> "ok", corpus |-> SubSeq(Questions, 1, nc),
           embeddings |-> SubSeq(EmbeddingRows, 1, ne),
           answers |-> SubSeq(Answers, 1, na)] :
            nc \in 0..MaxCorpus, ne \in 0..MaxCorpus, na \in 0..MaxCorpus}

\* The session store runs whether or not utils/retriever.py was imported
NotImported ==
    [vector_store |-> [status |-> "missing", corpus |-> <<>>, embeddings |-> <<>>,
                       answers |-> <<>>],
     corpus |-> <<>>, embeddings |-> <<>>, answers |-> <<>>]

\* load_vector_store: the three lists, or the exception it raises
load_vector_store(file) ==
    IF file.status = "missing" THEN [raised |-> "FileNotFoundError"]
    ELSE IF file.status = "corrupt" THEN [raised |-> "RuntimeError"]
    ELSE [raised |-> "", corpus |-> file.corpus, embeddings |-> file.embeddings,
          answers |-> file.answers]

\* lines 26-30: the module's globals once it is imported
module_init(file) ==
    LET loaded == load_vector_store(file)
    IN  IF loaded.raised # ""
        THEN [vector_store |-> file, corpus |-> <<>>, embeddings |-> <<>>, answers |-> <<>>]
        ELSE [vector_store |-> file, corpus |-> loaded.corpus,
              embeddings |-> loaded.embeddings, answers |-> loaded.answers]

Perms(n) == {p \in [1..n -> 1..n] : \A i, j \in 1..n : p[i] = p[j] => i = j}

\* scores.argsort(): the indices in an order of non-decreasing score; the
\* order of equal scores is the sort's choice
argsort(scores) ==
    {p \in Perms(Len(scores)) :
        \A i \in 1..(Len(scores) - 1) : scores[p[i]] <= scores[p[i + 1]]}

Reverse(seq) == [i \in 1..Len(seq) |-> seq[Len(seq) + 1 - i]]

\* seq[:k]
Take(seq, k) ==
    IF k >= 0 THEN SubSeq(seq, 1, Min(k, Len(seq)))
    ELSE SubSeq(seq, 1, IF Len(seq) + k < 0 THEN 0 ELSE Len(seq) + k)

\* scores.argsort()[::-1][:k], for the order asc that argsort returned
top_idx_ascending(asc, k) == Take(asc, k)
top_idx(asc, k) == Take(Reverse(asc), k)

\* scores[idx] >= threshold
passes_threshold_strict(score, threshold) == score > threshold
passes_threshold(score, threshold) == score >= threshold

\* retrieve_top_k; embedded is whether embed_query returned, scores what
\* cosine_similarity returned, asc what argsort returned.  Any exception in
\* the try block, such as the IndexError of corpus[idx] or answers[idx],
\* makes the result [].
retrieve_top_k(r, embedded, scores, asc, k, threshold) ==
    IF r.corpus = <<>> \/ r.embeddings = <<>> THEN <<>>
    ELSE IF ~embedded THEN <<>>
    ELSE LET kept == SelectSeq(top_idx(asc, k),
                               LAMBDA idx : passes_threshold(scores[idx], threshold))
         IN  IF \E i \in DOMAIN kept : kept[i] > Len(r.corpus) \/ kept[i] > Len(r.answers)
             THEN <<>>
             ELSE [i \in DOMAIN kept |-> <<r.corpus[kept[i]], r.answers[kept[i]]>>]

\* a retrieval that takes what it returns out of the module's lists
RetrieveTopK_consuming(embedded, scores, asc, k, threshold) ==
    \E ret \in {retrieve_top_k(retriever, embedded, scores, asc, k, threshold)} :
        /\ call' = [op |-> "retrieve_top_k", embedded |-> embedded, scores |-> scores,
                    asc |-> asc, k |-> k, threshold |-> threshold, ret |-> ret]
        /\ retriever' =
              [retriever EXCEPT
                 !.corpus = SelectSeq(@, LAMBDA q : \A i \in DOMAIN ret : ret[i][1] # q),
                 !.answers = SelectSeq(@, LAMBDA a : \A i \in DOMAIN ret : ret[i][2] # a)]
        /\ UNCHANGED <<sessions, order, stats, max_sessions, ttl_seconds, now, appended,
                       threads, client, held, conversation_cache, cache_log>>
RetrieveTopK(embedded, scores, asc, k, threshold) ==
    /\ call' = [op |-> "retrieve_top_k", embedded |-> embedded, scores |-> scores,
                asc |-> asc, k |-> k, threshold |-> threshold,
                ret |-> retrieve_top_k(retriever, embedded, scores, asc, k, threshold)]
    /\ UNCHANGED <<sessions, order, stats, max_sessions, ttl_seconds, now, appended,
                   threads, retriever, client, held, conversation_cache, cache_log>>

(***************************************************************************)
(* api/main.py: the /chat endpoint.  One request runs from start to end    *)
(* here; what the classifier predicts, what the similarity scores are and  *)
(* what the generator does are inputs of the request.  The entry that      *)
(* add_conversation stores also carries context_used and metadata, which   *)
(* no operation of the store reads: they are not modelled.                 *)
(***************************************************************************)
ChatTopK == 3           \* ChatRequest.top_k: int = 3
ChatContextCount == 3   \* get_conversation_context(session_id, count=3)
ChatQueries == {" ", "q1"}
ChatSessionIds == {None, "", "A"}       \* ChatRequest.session_id
Predictions == {"unavailable", "raises", "dmrc", "general"}
Generated == {"r1", "raises"}       \* _generate_text returns a text or raises
NoMatchesText == "I couldn't find specific information about that."

\* not req.query.strip()
Blank(query) == query \in {"", " "}

\* `req.session_id or ...`: None and "" are falsy
Falsy(session_id) == session_id \in {None, ""}

\* utils/intent_filter.py; prediction is what clf.predict gives, "raises" an
\* exception in the try block, "unavailable" a classifier that was not loaded
is_dmrc_query(query, prediction) ==
    IF prediction = "unavailable" THEN TRUE
    ELSE IF Blank(query) THEN FALSE
    ELSE IF prediction = "raises" THEN TRUE
    ELSE prediction = "dmrc"

\* The values n successive time.time() calls return when the clock showed t0
ClockReadsFrom(t0, n) ==
    {ts \in [1..n -> t0..MaxTime] :
        \A i \in 1..(n - 1) : ts[i] <= ts[i + 1]}

\* The history variable app after a step of a call that turns the sessions
\* old into the sessions new
SurvivorsFrom(app, old, new) ==
    [k \in Keys |-> IF k \in DOMAIN old /\ k \in DOMAIN new THEN app[k] ELSE <<>>]

\* The source of the answer: lines 113, 143
chat_source(is_dmrc, top_k_pairs) ==
    IF ~is_dmrc THEN "metro_general"
    ELSE IF top_k_pairs = <<>> THEN "no_matches"
    ELSE "dmrc_rag"

\* The confidence passed to add_conversation: lines 128, 152, 180
recorded_confidence_default(source) == Rat(4, 5)
recorded_confidence(source) == IF source = "no_matches" THEN Rat(0, 1) ELSE Rat(4, 5)

\* The confidence of the ChatResponse: lines 136, 160, 188
response_confidence(source) == IF source = "no_matches" THEN Rat(0, 1) ELSE Rat(4, 5)

\* format_context
format_context(pairs) == [i \in DOMAIN pairs |-> [question |-> pairs[i][1], answer |-> pairs[i][2]]]

\* The request ends with an HTTP error: nothing more is written
ChatFails(req, status, generator, st, app, t) ==
    /\ Install(st)
    /\ appended' = app
    /\ now' = t
    /\ call' = [op |-> "chat", req |-> req, status |-> status, generator |-> generator,
                response |-> <<>>, conversation_context |-> <<>>]

Chat(query, req_session_id, memory_enabled, prediction, embedded, scores, asc, generated) ==
    LET req == [query |-> query, session_id |-> req_session_id,
                memory_enabled |-> memory_enabled]
    IN
    /\ UNCHANGED <<max_sessions, ttl_seconds, threads, retriever, client, held, conversation_cache, cache_log>>
    /\ IF Blank(query)
       THEN ChatFails(req, 400, "not_called", Store, appended, now)
       ELSE
       \* session_id = req.session_id or session_memory.create_session()
       \E session_id \in (IF Falsy(req_session_id) THEN Keys \ DOMAIN sessions
                          ELSE {req_session_id}) :
       \E ts1 \in ClockReads(IF Falsy(req_session_id) THEN Len(order) + 2 ELSE 0) :
       \E st1 \in {IF Falsy(req_session_id)
                   THEN create_session(Store, max_sessions, ttl_seconds, session_id, ts1)
                   ELSE Store} :
       \E top_k_pairs \in {IF is_dmrc_query(query, prediction)
                           THEN retrieve_top_k(retriever, embedded, scores, asc,
                                               ChatTopK, CHOOSE th \in Thresholds : TRUE)
                           ELSE <<>>} :
          LET t1 == LastRead(ts1)
              app1 == SurvivorsFrom(appended, sessions, st1.sessions)
              is_dmrc == is_dmrc_query(query, prediction)
              source == chat_source(is_dmrc, top_k_pairs)
              conversation_context ==
                  IF memory_enabled /\ session_id \in DOMAIN st1.sessions
                  THEN UserSession_get_conversation_context(st1.sessions[session_id],
                                                            ChatContextCount)
                  ELSE <<>>
              response_text == IF source = "no_matches" THEN NoMatchesText ELSE generated
          IN  IF source # "no_matches" /\ ~client
              THEN ChatFails(req, 503, "not_called", st1, app1, t1)
              ELSE IF source # "no_matches" /\ generated = "raises"
              THEN ChatFails(req, 500, "raised", st1, app1, t1)
              ELSE
              \E ts2 \in ClockReadsFrom(t1, IF memory_enabled
                                             THEN create_session_reads(st1, session_id) + 2
                                             ELSE 0) :
              \E st2 \in {IF memory_enabled
                          THEN add_conversation(st1, max_sessions, ttl_seconds, session_id,
                                                query, response_text, source,
                                                recorded_confidence(source), ts2)
                          ELSE st1} :
                 LET entry == add_conversation_entry(st1, session_id, query, response_text,
                                                     source, recorded_confidence(source), ts2)
                     app2 == SurvivorsFrom(app1, st1.sessions, st2.sessions)
                 IN  /\ Install(st2)
                     /\ appended' = IF memory_enabled
                                    THEN [app2 EXCEPT ![session_id] = Append(@, entry)]
                                    ELSE app2
                     /\ now' = IF Len(ts2) = 0 THEN t1 ELSE ts2[Len(ts2)]
                     /\ call' = [op |-> "chat", req |-> req, status |-> 200,
                                 generator |-> IF source = "no_matches" THEN "not_called"
                                               ELSE "returned",
                                 response |-> <<[response |-> response_text,
                                                 source |-> source,
                                                 confidence |-> response_confidence(source),
                                                 session_id |-> session_id,
                                                 context |-> IF source = "dmrc_rag"
                                                             THEN format_context(top_k_pairs)
                                                             ELSE <<>>]>>,
                                 conversation_context |-> conversation_context]

(***************************************************************************)
(* utils/memory_cache.py: ConversationCache.  self.cache is an             *)
(* OrderedDict: a sequence of [key, value] items in the dict's order, with *)
(* no key twice.  self.timestamps is a dict, a function on its keys.       *)
(***************************************************************************)
CacheKeyArgs == {"context_A", "context_B", "context_C"}    \* f"context_{session_id}"
CacheValues == {"v1", None}         \* clear_conversation_context stores None
CacheMaxSizeArgs == {0, 1, 2}       \* values of the max_size argument
CacheTtlSecondsArgs == {0, 1}       \* values of the ttl_seconds argument

\* ConversationCache.__init__
ConversationCache(max_size_arg, ttl_seconds_arg) ==
    [max_size |-> max_size_arg, ttl_seconds |-> ttl_seconds_arg,
     cache |-> <<>>, timestamps |-> EmptyDict]

\* The keys of an OrderedDict, as a set and in iteration order
od_keys(od) == {od[i].key : i \in DOMAIN od}
od_list(od) == [i \in DOMAIN od |-> od[i].key]

\* od[key], for a key of od
od_item(od, key) == od[CHOOSE i \in DOMAIN od : od[i].key = key].value

\* od.pop(key, None)
od_pop(od, key) == SelectSeq(od, LAMBDA item : item.key # key)

\* od[key] = value: a new key goes to the end, a key of od keeps its place
od_setitem(od, key, value) ==
    IF key \in od_keys(od)
    THEN [i \in DOMAIN od |-> IF od[i].key = key THEN [key |-> key, value |-> value]
                              ELSE od[i]]
    ELSE Append(od, [key |-> key, value |-> value])

\* od.move_to_end(key), for a key of od
move_to_end_noop(od, key) == od
move_to_end(od, key) ==
    Append(od_pop(od, key), [key |-> key, value |-> od_item(od, key)])

\* _cleanup_expired; current_time is its time.time()
cleanup_expired(c, current_time) ==
    LET expired_keys == {key \in DOMAIN c.timestamps :
                            current_time - c.timestamps[key] > c.ttl_seconds}
    IN  [c EXCEPT !.cache = SelectSeq(@, LAMBDA item : item.key \notin expired_keys),
                  !.timestamps = Restrict(@, DOMAIN @ \ expired_keys)]

\* get: the cache it leaves and the value it returns
ConversationCache_get(c, key, current_time) ==
    LET c1 == cleanup_expired(c, current_time)
    IN  IF key \in od_keys(c1.cache)
        THEN [cache |-> [c1 EXCEPT !.cache = move_to_end(@, key)],
              ret |-> od_item(c1.cache, key)]
        ELSE [cache |-> c1, ret |-> None]

\* set; ts[1] is the time.time() of _cleanup_expired, ts[2] that of line 45
ConversationCache_set(c, key, value, ts) ==
    LET c1 == cleanup_expired(c, ts[1])
        c2 == IF key \in od_keys(c1.cache)
              THEN [c1 EXCEPT !.cache = od_pop(@, key),
                              !.timestamps = Restrict(@, DOMAIN @ \ {key})]
              ELSE c1
        c3 == [c2 EXCEPT !.cache = od_setitem(@, key, value),
                         !.timestamps = (key :> ts[2]) @@ @]
    IN  IF Len(c3.cache) > c3.max_size
        THEN LET oldest_key == c3.cache[1].key
             IN  [c3 EXCEPT !.cache = od_pop(@, oldest_key),
                            !.timestamps = Restrict(@, DOMAIN @ \ {oldest_key})]
        ELSE c3

ConversationCache_clear(c) ==
    [c EXCEPT !.cache = <<>>, !.timestamps = EmptyDict]

\* size and keys: the cache they leave and what they return
ConversationCache_size(c, current_time) ==
    LET c1 == cleanup_expired(c, current_time)
    IN  [cache |-> c1, ret |-> Len(c1.cache)]

ConversationCache_keys(c, current_time) ==
    LET c1 == cleanup_expired(c, current_time)
    IN  [cache |-> c1, ret |-> od_list(c1.cache)]

\* The history variable after a call that leaves cache c: the key the call
\* used (set, or found by get) becomes the most recently used, the keys that
\* are no longer in the cache leave the order of use, and a set records its
\* time
Logged(c, used, last_set) ==
    [recency |-> SelectSeq(SelectSeq(cache_log.recency, LAMBDA k : k \notin used)
                               \o (IF used = {} THEN <<>> ELSE <<CHOOSE k \in used : TRUE>>),
                           LAMBDA k : k \in od_keys(c.cache)),
     last_set |-> last_set @@ cache_log.last_set]

CacheGet(key) ==
    \E ts \in ClockReads(1) :
        \E r \in {ConversationCache_get(conversation_cache, key, ts[1])} :
            /\ conversation_cache' = r.cache
            /\ now' = LastRead(ts)
            /\ call' = [op |-> "cache_get", key |-> key, ret |-> r.ret]
            /\ cache_log' = Logged(r.cache, {key} \cap od_keys(r.cache.cache), EmptyDict)
            /\ UNCHANGED <<sessions, order, stats, max_sessions, ttl_seconds, appended,
                           threads, retriever, client, held>>

CacheSet(key, value) ==
    \E ts \in ClockReads(2) :
        \E c \in {ConversationCache_set(conversation_cache, key, value, ts)} :
            /\ conversation_cache' = c
            /\ now' = LastRead(ts)
            /\ call' = [op |-> "cache_set", key |-> key, value |-> value,
                        current_time |-> ts[1]]
            /\ cache_log' = Logged(c, {key}, key :> ts[2])
            /\ UNCHANGED <<sessions, order, stats, max_sessions, ttl_seconds, appended,
                           threads, retriever, client, held>>

CacheClear ==
    /\ conversation_cache' = ConversationCache_clear(conversation_cache)
    /\ call' = [op |-> "cache_clear"]
    /\ cache_log' = Logged(conversation_cache', {}, EmptyDict)
    /\ UNCHANGED <<sessions, order, stats, max_sessions, ttl_seconds, now, appended,
                   threads, retriever, client, held>>

CacheSize ==
    \E ts \in ClockReads(1) :
        \E r \in {ConversationCache_size(conversation_cache, ts[1])} :
            /\ conversation_cache' = r.cache
            /\ now' = LastRead(ts)
            /\ call' = [op |-> "cache_size", ret |-> r.ret]
            /\ cache_log' = Logged(r.cache, {}, EmptyDict)
            /\ UNCHANGED <<sessions, order, stats, max_sessions, ttl_seconds, appended,
                           threads, retriever, client, held>>

CacheKeys ==
    \E ts \in ClockReads(1) :
        \E r \in {ConversationCache_keys(conversation_cache, ts[1])} :
            /\ conversation_cache' = r.cache
            /\ now' = LastRead(ts)
            /\ call' = [op |-> "cache_keys", ret |-> r.ret]
            /\ cache_log' = Logged(r.cache, {}, EmptyDict)
            /\ UNCHANGED <<sessions, order, stats, max_sessions, ttl_seconds, appended,
                           threads, retriever, client, held>>

(***************************************************************************)
(* Spec: the calls that change a store built by                            *)
(* SessionMemory(max_sessions, ttl_seconds)                                *)
(***************************************************************************)
PreferenceMaps == UNION {[D -> PrefVals] : D \in SUBSET PrefKeys}

EmptyStore ==
    [sessions |-> EmptyDict, order |-> <<>>,
     stats |-> [total_sessions_created |-> 0, total_sessions_expired |-> 0,
                total_conversations |-> 0]]

Init ==
    /\ sessions = EmptyStore.sessions
    /\ order = EmptyStore.order
    /\ stats = EmptyStore.stats
    /\ max_sessions \in MaxSessionsArgs
    /\ ttl_seconds \in TtlSecondsArgs
    /\ now = 0
    /\ call = [op |-> "init"]
    /\ appended = [k \in Keys |-> <<>>]
    /\ threads = NoThreads
    /\ retriever = NotImported
    /\ client = FALSE
    /\ held = NoHeld
    /\ conversation_cache = NoCache
    /\ cache_log = NoCacheLog

Next ==
    \/ \E arg \in Keys \cup {None} :
          CreateSession(arg) /\ stats'.total_sessions_created <= MaxCreated
    \/ \E session_id \in Keys, user_query \in Queries, bot_response \in Responses,
          source \in Sources, confidence \in Confidences :
          /\ AddConversation(session_id, user_query, bot_response, source, confidence)
          /\ stats'.total_sessions_created <= MaxCreated
          /\ stats'.total_conversations <= MaxConversations
    \/ \E session_id \in Keys, preferences \in PreferenceMaps :
          UpdateUserPreferences(session_id, preferences)
    \/ \E session_id \in Keys : ResetSession(session_id)
    \/ \E session_id \in Keys : DeleteSession(session_id)

Spec == Init /\ [][Next]_vars

(***************************************************************************)
(* SpecReads: the same store with the calls that only read it              *)
(***************************************************************************)
Reads ==
    \/ \E session_id \in Keys : GetConversationContext(session_id, DefaultContextCount)
    \/ \E session_id \in Keys : GetRecentConversations(session_id, DefaultRecentCount)
    \/ \E session_id \in Keys : GetUserPreferences(session_id)
    \/ \E session_id \in Keys : GetSessionInfo(session_id)
    \/ GetAllSessions
    \/ GetMemoryStats

NextReads == Next \/ Reads

SpecReads == Init /\ [][NextReads]_vars

(***************************************************************************)
(* SpecStats: the calls that change the store, and get_memory_stats        *)
(***************************************************************************)
NextStats == Next \/ GetMemoryStats

SpecStats == Init /\ [][NextStats]_vars

(***************************************************************************)
(* SpecDeep: one session, "A", that already holds Prefill conversations,   *)
(* so that its history fills up and overflows                              *)
(***************************************************************************)
RECURSIVE PrefilledStore(_, _, _, _)
PrefilledStore(n, max, ttl, confidence) ==
    IF n = 0
    THEN create_session(EmptyStore, max, ttl, "A", <<0, 0>>)
    ELSE add_conversation(PrefilledStore(n - 1, max, ttl, confidence), max, ttl, "A",
                          "q1", "r1", "dmrc_rag", confidence, <<0, 0>>)

InitDeep ==
    /\ max_sessions \in MaxSessionsArgs
    /\ ttl_seconds \in TtlSecondsArgs
    /\ \E confidence \in Confidences :
          LET st == PrefilledStore(Prefill, max_sessions, ttl_seconds, confidence)
          IN  /\ sessions = st.sessions
              /\ order = st.order
              /\ stats = st.stats
              /\ appended = [k \in Keys |->
                                IF k = "A"
                                THEN [i \in 1..Prefill |->
                                         ConversationEntry("q1", "r1", 0, "dmrc_rag", confidence)]
                                ELSE <<>>]
    /\ now = 0
    /\ call = [op |-> "init"]
    /\ threads = NoThreads
    /\ retriever = NotImported
    /\ client = FALSE
    /\ held = NoHeld
    /\ conversation_cache = NoCache
    /\ cache_log = NoCacheLog

NextDeep ==
    \/ \E user_query \in Queries, bot_response \in Responses,
          source \in Sources, confidence \in Confidences :
          /\ AddConversation("A", user_query, bot_response, source, confidence)
          /\ stats'.total_conversations <= MaxDeepConversations
    \/ ResetSession("A")
    \/ \E count \in 0..MaxCount : GetConversationContext("A", count)
    \/ \E count \in 0..MaxCount : GetRecentConversations("A", count)
    \/ GetSessionInfo("A")

SpecDeep == InitDeep /\ [][NextDeep]_vars

(***************************************************************************)
(* SpecReset: two keys and a few conversations, so that reset_session acts *)
(* on a session with history, statistics and preferences next to another  *)
(* session, and conversations follow the reset                             *)
(***************************************************************************)
ResetKeys == {"A", "B"}

NextReset ==
    \/ \E session_id \in ResetKeys :
          CreateSession(session_id) /\ stats'.total_sessions_created <= MaxCreated
    \/ \E session_id \in ResetKeys, user_query \in Queries, bot_response \in Responses,
          source \in Sources, confidence \in Confidences :
          /\ AddConversation(session_id, user_query, bot_response, source, confidence)
          /\ stats'.total_sessions_created <= MaxCreated
          /\ stats'.total_conversations <= MaxResetConversations
    \/ \E session_id \in ResetKeys, preferences \in PreferenceMaps :
          UpdateUserPreferences(session_id, preferences)
    \/ \E session_id \in ResetKeys : ResetSession(session_id)
    \/ \E session_id \in ResetKeys : GetSessionInfo(session_id)

SpecReset == Init /\ [][NextReset]_vars

(***************************************************************************)
(* SpecThreads: callers on worker threads, each step one statement of      *)
(* create_session or add_conversation.  The calls that run together are    *)
(* those of the two concurrent scenarios: add_conversation calls on        *)
(* sessions that are in the store, or create_session calls with distinct   *)
(* new keys; an add_conversation on an unknown key runs alone.             *)
(***************************************************************************)
Goto(t, pc) == threads' = [threads EXCEPT ![t].pc = pc]

\* The call of thread t is over: it returned ret, or raised the KeyError of
\* a dict lookup or del on a missing key (ret is then the placeholder None)
Return(t, ret, raised) ==
    /\ call' = [op |-> threads[t].op, session_id |-> threads[t].session_id,
                thread |-> t, raised |-> raised, ret |-> ret]
    /\ threads' = [threads EXCEPT ![t] = IdleThread(threads[t].calls)]

Busy(t) == threads[t].pc # "idle"

\* Thread u is inside UserSession.add_conversation of the session of key k
InSession(u, k) ==
    /\ threads[u].session_id = k
    /\ threads[u].pc \in {"ac_touch", "ac_defaults", "ac_total_load", "ac_total_store",
                          "ac_avg_load", "ac_avg_store"}

\* The threads thr once thread t has deleted or replaced self.sessions[k]
Detach(thr, t, k) ==
    [u \in Threads |-> IF u # t /\ InSession(u, k) THEN [thr[u] EXCEPT !.orphan = TRUE]
                       ELSE thr[u]]

BeginCreateSession(t, session_id) ==
    /\ ~Busy(t)
    /\ threads[t].calls < MaxThreadCalls
    /\ session_id \notin DOMAIN sessions
    /\ \A u \in Threads \ {t} :
          Busy(u) => threads[u].op = "create_session" /\ threads[u].session_id # session_id
    /\ threads' = [threads EXCEPT ![t].pc = "cs_check", ![t].op = "create_session",
                                  ![t].session_id = session_id, ![t].calls = @ + 1]
    /\ UNCHANGED <<sessions, order, stats, max_sessions, ttl_seconds, now, call, appended, retriever, client, held, conversation_cache, cache_log>>

BeginAddConversation(t, session_id, user_query, bot_response, source, confidence) ==
    /\ ~Busy(t)
    /\ threads[t].calls < MaxThreadCalls
    /\ IF session_id \in DOMAIN sessions
       THEN \A u \in Threads \ {t} :
               Busy(u) => /\ threads[u].op = "add_conversation"
                          /\ threads[u].session_id \in DOMAIN sessions
       ELSE \A u \in Threads \ {t} : ~Busy(u)
    /\ threads' = [threads EXCEPT
                      ![t].pc = "ac_check", ![t].op = "add_conversation",
                      ![t].session_id = session_id, ![t].calls = @ + 1,
                      ![t].entry = ConversationEntry(user_query, bot_response, 0,
                                                     source, confidence)]
    /\ UNCHANGED <<sessions, order, stats, max_sessions, ttl_seconds, now, call, appended, retriever, client, held, conversation_cache, cache_log>>

\* line 123: if session_id in self.sessions: return session_id
cs_check(t) ==
    /\ threads[t].pc = "cs_check"
    /\ IF threads[t].session_id \in DOMAIN sessions
       THEN IF threads[t].op = "add_conversation"
            THEN Goto(t, "ac_entry") /\ UNCHANGED call
            ELSE Return(t, threads[t].session_id, FALSE)
       ELSE Goto(t, "cs_scan") /\ UNCHANGED call
    /\ UNCHANGED <<sessions, order, stats, max_sessions, ttl_seconds, now, appended, retriever, client, held, conversation_cache, cache_log>>

\* lines 327-330: the list of the expired session ids
cs_scan(t) ==
    /\ threads[t].pc = "cs_scan"
    /\ \E ts \in ClockReads(Len(order)) :
          /\ threads' = [threads EXCEPT
                ![t].pc = "cs_sweep",
                ![t].expired_sessions =
                    SelectSeq([i \in 1..Len(order) |->
                                  IF is_expired(sessions[order[i]], ttl_seconds, ts[i])
                                  THEN order[i] ELSE ""],
                              LAMBDA k : k # "")]
          /\ now' = LastRead(ts)
    /\ UNCHANGED <<sessions, order, stats, max_sessions, ttl_seconds, call, appended, retriever, client, held, conversation_cache, cache_log>>

\* lines 332-334: del self.sessions[session_id]; total_sessions_expired += 1
cs_sweep(t) ==
    /\ threads[t].pc = "cs_sweep"
    /\ IF threads[t].expired_sessions = <<>>
       THEN /\ Goto(t, "cs_capacity")
            /\ UNCHANGED <<sessions, order, stats, call, appended>>
       ELSE LET k == Head(threads[t].expired_sessions)
            IN  IF k \notin DOMAIN sessions
                THEN /\ Return(t, None, TRUE)
                     /\ UNCHANGED <<sessions, order, stats, appended>>
                ELSE /\ sessions' = Restrict(sessions, DOMAIN sessions \ {k})
                     /\ order' = Without(order, {k})
                     /\ stats' = [stats EXCEPT !.total_sessions_expired = @ + 1]
                     /\ appended' = [appended EXCEPT ![k] = <<>>]
                     /\ threads' = Detach([threads EXCEPT ![t].expired_sessions = Tail(@)],
                                          t, k)
                     /\ UNCHANGED call
    /\ UNCHANGED <<max_sessions, ttl_seconds, now, retriever, client, held, conversation_cache, cache_log>>

\* line 131: if len(self.sessions) >= self.max_sessions
cs_capacity(t) ==
    /\ threads[t].pc = "cs_capacity"
    /\ Goto(t, IF at_capacity(Cardinality(DOMAIN sessions), max_sessions)
               THEN "cs_oldest" ELSE "cs_insert")
    /\ UNCHANGED <<sessions, order, stats, max_sessions, ttl_seconds, now, call, appended, retriever, client, held, conversation_cache, cache_log>>

\* lines 341-347: if not self.sessions: return; oldest_session_id = min(...)
cs_oldest(t) ==
    /\ threads[t].pc = "cs_oldest"
    /\ IF order = <<>>
       THEN Goto(t, "cs_insert")
       ELSE threads' = [threads EXCEPT ![t].pc = "cs_delete",
                                       ![t].oldest_session_id = oldest_session_id(Store)]
    /\ UNCHANGED <<sessions, order, stats, max_sessions, ttl_seconds, now, call, appended, retriever, client, held, conversation_cache, cache_log>>

\* line 349: del self.sessions[oldest_session_id]
cs_delete(t) ==
    /\ threads[t].pc = "cs_delete"
    /\ LET k == threads[t].oldest_session_id
       IN  IF k \notin DOMAIN sessions
           THEN /\ Return(t, None, TRUE)
                /\ UNCHANGED <<sessions, order, appended>>
           ELSE /\ sessions' = Restrict(sessions, DOMAIN sessions \ {k})
                /\ order' = Without(order, {k})
                /\ appended' = [appended EXCEPT ![k] = <<>>]
                /\ threads' = Detach([threads EXCEPT ![t].pc = "cs_insert"], t, k)
                /\ UNCHANGED call
    /\ UNCHANGED <<stats, max_sessions, ttl_seconds, now, retriever, client, held, conversation_cache, cache_log>>

\* lines 135-139: self.sessions[session_id] = UserSession(...)
cs_insert(t) ==
    /\ threads[t].pc = "cs_insert"
    /\ \E ts \in ClockReads(2) :
          LET k == threads[t].session_id
          IN  /\ sessions' = (k :> UserSession(k, ts[1], ts[2])) @@ sessions
              /\ order' = IF k \in DOMAIN sessions THEN order ELSE Append(order, k)
              /\ appended' = [appended EXCEPT ![k] = <<>>]
              /\ now' = LastRead(ts)
              /\ threads' = Detach([threads EXCEPT ![t].pc = "cs_created_load"], t, k)
    /\ UNCHANGED <<stats, max_sessions, ttl_seconds, call, retriever, client, held, conversation_cache, cache_log>>

\* line 141, the load of self.stats["total_sessions_created"] += 1
cs_created_load(t) ==
    /\ threads[t].pc = "cs_created_load"
    /\ threads' = [threads EXCEPT ![t].pc = "cs_created_store",
                                  ![t].reg = stats.total_sessions_created]
    /\ UNCHANGED <<sessions, order, stats, max_sessions, ttl_seconds, now, call, appended, retriever, client, held, conversation_cache, cache_log>>

\* line 141, the store; line 144: return session_id
cs_created_store(t) ==
    /\ threads[t].pc = "cs_created_store"
    /\ stats' = [stats EXCEPT !.total_sessions_created = threads[t].reg + 1]
    /\ IF threads[t].op = "add_conversation"
       THEN Goto(t, "ac_entry") /\ UNCHANGED call
       ELSE Return(t, threads[t].session_id, FALSE)
    /\ UNCHANGED <<sessions, order, max_sessions, ttl_seconds, now, appended, retriever, client, held, conversation_cache, cache_log>>

\* lines 165-167: if session_id not in self.sessions: self.create_session(session_id)
ac_check(t) ==
    /\ threads[t].pc = "ac_check"
    /\ Goto(t, IF threads[t].session_id \notin DOMAIN sessions
               THEN "cs_check" ELSE "ac_entry")
    /\ UNCHANGED <<sessions, order, stats, max_sessions, ttl_seconds, now, call, appended, retriever, client, held, conversation_cache, cache_log>>

\* lines 169-177: entry = ConversationEntry(..., timestamp=time.time(), ...)
ac_entry(t) ==
    /\ threads[t].pc = "ac_entry"
    /\ \E ts \in ClockReads(1) :
          /\ threads' = [threads EXCEPT ![t].pc = "ac_append",
                                        ![t].entry.timestamp = ts[1]]
          /\ now' = LastRead(ts)
    /\ UNCHANGED <<sessions, order, stats, max_sessions, ttl_seconds, call, appended, retriever, client, held, conversation_cache, cache_log>>

\* lines 179 and 34: self.sessions[session_id]; conversation_history.append(entry)
ac_append(t) ==
    /\ threads[t].pc = "ac_append"
    /\ LET k == threads[t].session_id
       IN  IF k \notin DOMAIN sessions
           THEN /\ Return(t, None, TRUE)
                /\ UNCHANGED <<sessions, appended>>
           ELSE /\ sessions' = [sessions EXCEPT ![k].conversation_history =
                                                   deque_append(@, threads[t].entry)]
                /\ appended' = [appended EXCEPT ![k] = Append(@, threads[t].entry)]
                /\ Goto(t, "ac_touch")
                /\ UNCHANGED call
    /\ UNCHANGED <<order, stats, max_sessions, ttl_seconds, now, retriever, client, held, conversation_cache, cache_log>>

\* line 35: self.last_accessed = time.time()
ac_touch(t) ==
    /\ threads[t].pc = "ac_touch"
    /\ \E ts \in ClockReads(1) :
          /\ sessions' = IF threads[t].orphan THEN sessions
                         ELSE [sessions EXCEPT ![threads[t].session_id].last_accessed = ts[1]]
          /\ now' = LastRead(ts)
    /\ Goto(t, "ac_defaults")
    /\ UNCHANGED <<order, stats, max_sessions, ttl_seconds, call, appended, retriever, client, held, conversation_cache, cache_log>>

\* lines 55-58: the two keys of session_stats get their zero when missing
ac_defaults(t) ==
    /\ threads[t].pc = "ac_defaults"
    /\ sessions' = IF threads[t].orphan THEN sessions
                   ELSE [sessions EXCEPT ![threads[t].session_id].session_stats =
                           @ @@ ("total_conversations" :> 0) @@ ("avg_confidence" :> Rat(0, 1))]
    /\ Goto(t, "ac_total_load")
    /\ UNCHANGED <<order, stats, max_sessions, ttl_seconds, now, call, appended, retriever, client, held, conversation_cache, cache_log>>

\* line 60, the load of self.session_stats["total_conversations"] += 1
ac_total_load(t) ==
    /\ threads[t].pc = "ac_total_load"
    /\ threads' = [threads EXCEPT
          ![t].pc = "ac_total_store",
          ![t].reg = IF threads[t].orphan THEN 0
                     ELSE sessions[threads[t].session_id].session_stats["total_conversations"]]
    /\ UNCHANGED <<sessions, order, stats, max_sessions, ttl_seconds, now, call, appended, retriever, client, held, conversation_cache, cache_log>>

\* line 60, the store
ac_total_store(t) ==
    /\ threads[t].pc = "ac_total_store"
    /\ sessions' = IF threads[t].orphan THEN sessions
                   ELSE [sessions EXCEPT
                           ![threads[t].session_id].session_stats["total_conversations"] =
                               threads[t].reg + 1]
    /\ Goto(t, "ac_avg_load")
    /\ UNCHANGED <<order, stats, max_sessions, ttl_seconds, now, call, appended, retriever, client, held, conversation_cache, cache_log>>

\* lines 62-63: current_avg and total are read
ac_avg_load(t) ==
    /\ threads[t].pc = "ac_avg_load"
    /\ IF threads[t].orphan
       THEN Goto(t, "ac_avg_store")
       ELSE LET session_stats == sessions[threads[t].session_id].session_stats
            IN  threads' = [threads EXCEPT ![t].pc = "ac_avg_store",
                                           ![t].current_avg = session_stats["avg_confidence"],
                                           ![t].total = session_stats["total_conversations"]]
    /\ UNCHANGED <<sessions, order, stats, max_sessions, ttl_seconds, now, call, appended, retriever, client, held, conversation_cache, cache_log>>

\* line 64: avg_confidence = (current_avg * (total - 1) + entry.confidence) / total
ac_avg_store(t) ==
    /\ threads[t].pc = "ac_avg_store"
    /\ sessions' = IF threads[t].orphan THEN sessions
                   ELSE [sessions EXCEPT
                           ![threads[t].session_id].session_stats["avg_confidence"] =
                               RunningAverage(threads[t].current_avg, threads[t].total,
                                              threads[t].entry.confidence)]
    /\ Goto(t, "ac_count_load")
    /\ UNCHANGED <<order, stats, max_sessions, ttl_seconds, now, call, appended, retriever, client, held, conversation_cache, cache_log>>

\* line 180, the load of self.stats["total_conversations"] += 1
ac_count_load(t) ==
    /\ threads[t].pc = "ac_count_load"
    /\ threads' = [threads EXCEPT ![t].pc = "ac_count_store",
                                  ![t].reg = stats.total_conversations]
    /\ UNCHANGED <<sessions, order, stats, max_sessions, ttl_seconds, now, call, appended, retriever, client, held, conversation_cache, cache_log>>

\* line 180, the store; line 183: return True
ac_count_store(t) ==
    /\ threads[t].pc = "ac_count_store"
    /\ stats' = [stats EXCEPT !.total_conversations = threads[t].reg + 1]
    /\ Return(t, TRUE, FALSE)
    /\ UNCHANGED <<sessions, order, max_sessions, ttl_seconds, now, appended, retriever, client, held, conversation_cache, cache_log>>



NextThreads ==
    \E t \in Threads :
        \/ \E session_id \in Keys : BeginCreateSession(t, session_id)
        \/ \E session_id \in Keys, user_query \in Queries, bot_response \in Responses,
              source \in Sources, confidence \in Confidences :
              BeginAddConversation(t, session_id, user_query, bot_response, source, confidence)
        \/ cs_check(t)
        \/ cs_scan(t)
        \/ cs_sweep(t)
        \/ cs_capacity(t)
        \/ cs_oldest(t)
        \/ cs_delete(t)
        \/ cs_insert(t)
        \/ cs_created_load(t)
        \/ cs_created_store(t)
        \/ ac_check(t)
        \/ ac_entry(t)
        \/ ac_append(t)
        \/ ac_touch(t)
        \/ ac_defaults(t)
        \/ ac_total_load(t)
        \/ ac_total_store(t)
        \/ ac_avg_load(t)
        \/ ac_avg_store(t)
        \/ ac_count_load(t)
        \/ ac_count_store(t)

\* The store is new, or session "A" was created in it at time 0
InitThreads ==
    /\ max_sessions \in MaxSessionsArgs
    /\ ttl_seconds \in TtlSecondsArgs
    /\ \E st \in {EmptyStore,
                  create_session(EmptyStore, max_sessions, ttl_seconds, "A", <<0, 0>>)} :
          /\ sessions = st.sessions
          /\ order = st.order
          /\ stats = st.stats
    /\ now = 0
    /\ call = [op |-> "init"]
    /\ appended = [k \in Keys |-> <<>>]
    /\ threads = NoThreads
    /\ retriever = NotImported
    /\ client = FALSE
    /\ held = NoHeld
    /\ conversation_cache = NoCache
    /\ cache_log = NoCacheLog

SpecThreads == InitThreads /\ [][NextThreads]_vars

(***************************************************************************)
(* SpecRace: the same callers and steps with no restriction on what runs   *)
(* together: create_session and add_conversation calls on the same key,    *)
(* unknown or present, and calls whose sweep or eviction removes the       *)
(* session another call is working on                                      *)
(***************************************************************************)
RaceKeys == {"A", "B"}

BeginCreateSessionAny(t, session_id) ==
    /\ ~Busy(t)
    /\ threads[t].calls < MaxThreadCalls
    /\ threads' = [threads EXCEPT ![t].pc = "cs_check", ![t].op = "create_session",
                                  ![t].session_id = session_id, ![t].calls = @ + 1]
    /\ UNCHANGED <<sessions, order, stats, max_sessions, ttl_seconds, now, call, appended, retriever, client, held, conversation_cache, cache_log>>

BeginAddConversationAny(t, session_id, user_query, bot_response, source, confidence) ==
    /\ ~Busy(t)
    /\ threads[t].calls < MaxThreadCalls
    /\ threads' = [threads EXCEPT
                      ![t].pc = "ac_check", ![t].op = "add_conversation",
                      ![t].session_id = session_id, ![t].calls = @ + 1,
                      ![t].entry = ConversationEntry(user_query, bot_response, 0,
                                                     source, confidence)]
    /\ UNCHANGED <<sessions, order, stats, max_sessions, ttl_seconds, now, call, appended, retriever, client, held, conversation_cache, cache_log>>

NextRace ==
    \E t \in Threads :
        \/ \E session_id \in RaceKeys : BeginCreateSessionAny(t, session_id)
        \/ \E session_id \in RaceKeys, user_query \in Queries, bot_response \in Responses,
              source \in Sources, confidence \in Confidences :
              BeginAddConversationAny(t, session_id, user_query, bot_response, source,
                                      confidence)
        \/ cs_check(t)
        \/ cs_scan(t)
        \/ cs_sweep(t)
        \/ cs_capacity(t)
        \/ cs_oldest(t)
        \/ cs_delete(t)
        \/ cs_insert(t)
        \/ cs_created_load(t)
        \/ cs_created_store(t)
        \/ ac_check(t)
        \/ ac_entry(t)
        \/ ac_append(t)
        \/ ac_touch(t)
        \/ ac_defaults(t)
        \/ ac_total_load(t)
        \/ ac_total_store(t)
        \/ ac_avg_load(t)
        \/ ac_avg_store(t)
        \/ ac_count_load(t)
        \/ ac_count_store(t)

SpecRace == InitThreads /\ [][NextRace]_vars

(***************************************************************************)
(* SpecRetriever: the retriever module after its import, answering         *)
(* retrieve_top_k calls                                                    *)
(***************************************************************************)
InitRetriever ==
    /\ sessions = EmptyStore.sessions
    /\ order = EmptyStore.order
    /\ stats = EmptyStore.stats
    /\ max_sessions = 2
    /\ ttl_seconds = 1
    /\ now = 0
    /\ call = [op |-> "init"]
    /\ appended = [k \in Keys |-> <<>>]
    /\ threads = NoThreads
    /\ \E file \in VectorStoreFiles : retriever = module_init(file)
    /\ client = FALSE
    /\ held = NoHeld
    /\ conversation_cache = NoCache
    /\ cache_log = NoCacheLog

NextRetriever ==
    \E embedded \in BOOLEAN, scores \in [1..Len(retriever.embeddings) -> ScoreValues],
       k \in 0..MaxK, threshold \in Thresholds :
        \E asc \in argsort(scores) :
            RetrieveTopK(embedded, scores, asc, k, threshold)

SpecRetriever == InitRetriever /\ [][NextRetriever]_vars

(***************************************************************************)
(* SpecChat: /chat requests, one after the other, on the global instance   *)
(* session_memory = SessionMemory(), with or without an API key, and a     *)
(* vector store of one question                                            *)
(***************************************************************************)
DefaultMaxSessions == 100       \* __init__(self, max_sessions: int = 100,
DefaultTtlSeconds == 3600       \*          ttl_seconds: int = 3600)

ChatVectorStore ==
    [status |-> "ok", corpus |-> <<"Q1">>, embeddings |-> <<"e1">>, answers |-> <<"a1">>]

InitChat ==
    /\ sessions = EmptyStore.sessions
    /\ order = EmptyStore.order
    /\ stats = EmptyStore.stats
    /\ max_sessions = DefaultMaxSessions
    /\ ttl_seconds = DefaultTtlSeconds
    /\ now = 0
    /\ call = [op |-> "init"]
    /\ appended = [k \in Keys |-> <<>>]
    /\ threads = NoThreads
    /\ retriever = module_init(ChatVectorStore)
    /\ client \in BOOLEAN
    /\ held = NoHeld
    /\ conversation_cache = NoCache
    /\ cache_log = NoCacheLog

\* What the retrieval of a request meets: the query could not be embedded, or
\* the one question scores below or above the threshold
ChatRetrievals ==
    {[embedded |-> FALSE, scores |-> <<90>>], [embedded |-> TRUE, scores |-> <<10>>],
     [embedded |-> TRUE, scores |-> <<90>>]}

NextChat ==
    \E query \in ChatQueries, req_session_id \in ChatSessionIds,
       memory_enabled \in BOOLEAN, prediction \in Predictions,
       retrieval \in ChatRetrievals, generated \in Generated :
       \E asc \in argsort(retrieval.scores) :
          /\ Chat(query, req_session_id, memory_enabled, prediction, retrieval.embedded,
                  retrieval.scores, asc, generated)
          /\ stats'.total_sessions_created <= MaxChatCreated
          /\ stats'.total_conversations <= MaxChatConversations

SpecChat == InitChat /\ [][NextChat]_vars

(***************************************************************************)
(* SpecHeld: one session, "A", and a caller that keeps the object a read   *)
(* returned while the session is written to, and writes to that object.    *)
(* What the caller holds is a reference: where the returned object is, or  *)
(* contains, a dict of the session itself, the caller sees every later     *)
(* change of that dict and its own writes land in the session.  Nothing    *)
(* removes session "A" here.                                               *)
(***************************************************************************)
HeldPrefKeys == {"lang", "line"}
HeldPrefVals == {"en", "hi"}
HeldPreferenceMaps == UNION {[D -> HeldPrefVals] : D \in SUBSET HeldPrefKeys}

\* lines 77-78: the values of the returned dict that are the session's own
\* session_stats and user_preferences objects
get_session_info_shared == {"stats", "preferences"}

\* line 248: user_preferences.copy() shares nothing with the session
get_user_preferences_shared == {}

\* What the caller reads in the object it holds
HeldValue ==
    IF held.op = "get_session_info" /\ held.session_id \in DOMAIN sessions
    THEN [held.value EXCEPT
            !.stats = IF "stats" \in held.shared
                      THEN sessions[held.session_id].session_stats ELSE @,
            !.preferences = IF "preferences" \in held.shared
                            THEN sessions[held.session_id].user_preferences ELSE @]
    ELSE IF held.op = "get_user_preferences" /\ held.session_id \in DOMAIN sessions
            /\ "preferences" \in held.shared
    THEN sessions[held.session_id].user_preferences
    ELSE held.value

\* info = session_memory.get_session_info(session_id), and info is kept
HoldSessionInfo(session_id) ==
    /\ session_id \in DOMAIN sessions
    /\ call' = [op |-> "get_session_info", session_id |-> session_id,
                ret |-> <<UserSession_get_session_info(sessions[session_id])>>]
    /\ held' = [op |-> "get_session_info", session_id |-> session_id,
                value |-> UserSession_get_session_info(sessions[session_id]),
                shared |-> get_session_info_shared]
    /\ UNCHANGED <<sessions, order, stats, max_sessions, ttl_seconds, now, appended, threads, retriever, client, conversation_cache, cache_log>>

\* prefs = session_memory.get_user_preferences(session_id), and prefs is kept
HoldUserPreferences(session_id) ==
    /\ session_id \in DOMAIN sessions
    /\ call' = [op |-> "get_user_preferences", session_id |-> session_id,
                ret |-> sessions[session_id].user_preferences]
    /\ held' = [op |-> "get_user_preferences", session_id |-> session_id,
                value |-> sessions[session_id].user_preferences,
                shared |-> get_user_preferences_shared]
    /\ UNCHANGED <<sessions, order, stats, max_sessions, ttl_seconds, now, appended, threads, retriever, client, conversation_cache, cache_log>>

\* The caller writes to what it holds: info["preferences"][key] = val, or
\* prefs[key] = val
ModifyHeld(key, val) ==
    /\ held.op \in {"get_session_info", "get_user_preferences"}
    /\ IF "preferences" \in held.shared /\ held.session_id \in DOMAIN sessions
       THEN /\ sessions' = [sessions EXCEPT ![held.session_id].user_preferences =
                                               (key :> val) @@ @]
            /\ UNCHANGED held
       ELSE /\ held' = IF held.op = "get_session_info"
                       THEN [held EXCEPT !.value.preferences = (key :> val) @@ @]
                       ELSE [held EXCEPT !.value = (key :> val) @@ @]
            /\ UNCHANGED sessions
    /\ call' = [op |-> "modify_held", key |-> key, val |-> val]
    /\ UNCHANGED <<order, stats, max_sessions, ttl_seconds, now, appended, threads, retriever, client, conversation_cache, cache_log>>

NextHeld ==
    \/ CreateSession("A")
    \/ \E user_query \in Queries, bot_response \in Responses,
          source \in Sources, confidence \in Confidences :
          /\ AddConversation("A", user_query, bot_response, source, confidence)
          /\ stats'.total_conversations <= MaxHeldConversations
    \/ \E preferences \in HeldPreferenceMaps : UpdateUserPreferences("A", preferences)
    \/ ResetSession("A")
    \/ HoldSessionInfo("A")
    \/ HoldUserPreferences("A")
    \/ \E key \in HeldPrefKeys, val \in HeldPrefVals : ModifyHeld(key, val)

SpecHeld == Init /\ [][NextHeld]_vars

(***************************************************************************)
(* SpecPresence: the life of one key, "A", next to a bystander session     *)
(* "B".  "A" is created, written, read and deleted, again and again; "B"   *)
(* is only created and deleted.  There is no reset_session here, so a      *)
(* conversation of "A" leaves the store only when "A" itself does.         *)
(***************************************************************************)
PresenceKeys == {"A", "B"}

NextPresence ==
    \/ \E arg \in PresenceKeys :
          CreateSession(arg) /\ stats'.total_sessions_created <= MaxPresenceCreated
    \/ \E user_query \in Queries, bot_response \in Responses,
          source \in Sources, confidence \in Confidences :
          /\ AddConversation("A", user_query, bot_response, source, confidence)
          /\ stats'.total_sessions_created <= MaxPresenceCreated
          /\ stats'.total_conversations <= MaxPresenceConversations
    \/ \E preferences \in PreferenceMaps : UpdateUserPreferences("A", preferences)
    \/ \E session_id \in PresenceKeys : DeleteSession(session_id)
    \/ GetConversationContext("A", DefaultContextCount)
    \/ GetRecentConversations("A", DefaultRecentCount)
    \/ GetUserPreferences("A")
    \/ GetSessionInfo("A")

SpecPresence == Init /\ [][NextPresence]_vars

(***************************************************************************)
(* SpecLazy: a session, "A", that is read and written while other calls    *)
(* move the clock past its TTL, and create_session calls with other keys,  *)
(* which run the sweep.  The caller keeps the snapshot get_session_info    *)
(* returned, so that what the session was before a write stays visible.    *)
(***************************************************************************)
LazyKeys == {"A", "B", "C"}

NextLazy ==
    \/ \E arg \in LazyKeys :
          CreateSession(arg) /\ stats'.total_sessions_created <= MaxLazyCreated
    \/ \E user_query \in Queries, bot_response \in Responses,
          source \in Sources, confidence \in Confidences :
          /\ AddConversation("A", user_query, bot_response, source, confidence)
          /\ stats'.total_sessions_created <= MaxLazyCreated
          /\ stats'.total_conversations <= MaxLazyConversations
    \/ \E preferences \in PreferenceMaps : UpdateUserPreferences("A", preferences)
    \/ ResetSession("A")
    \/ HoldSessionInfo("A")
    \/ GetConversationContext("A", DefaultContextCount)
    \/ GetRecentConversations("A", DefaultRecentCount)
    \/ GetUserPreferences("A")

SpecLazy == Init /\ [][NextLazy]_vars

(***************************************************************************)
(* SpecCache: a ConversationCache(max_size, ttl_seconds) and the calls of  *)
(* its methods, one after the other                                        *)
(***************************************************************************)
InitCache ==
    /\ sessions = EmptyStore.sessions
    /\ order = EmptyStore.order
    /\ stats = EmptyStore.stats
    /\ max_sessions = 2
    /\ ttl_seconds = 1
    /\ now = 0
    /\ call = [op |-> "init"]
    /\ appended = [k \in Keys |-> <<>>]
    /\ threads = NoThreads
    /\ retriever = NotImported
    /\ client = FALSE
    /\ held = NoHeld
    /\ \E max_size_arg \in CacheMaxSizeArgs, ttl_seconds_arg \in CacheTtlSecondsArgs :
          conversation_cache = ConversationCache(max_size_arg, ttl_seconds_arg)
    /\ cache_log = NoCacheLog

NextCache ==
    \/ \E key \in CacheKeyArgs : CacheGet(key)
    \/ \E key \in CacheKeyArgs, value \in CacheValues : CacheSet(key, value)
    \/ CacheClear
    \/ CacheSize
    \/ CacheKeys

SpecCache == InitCache /\ [][NextCache]_vars

(***************************************************************************)
(* Properties                                                              *)
(***************************************************************************)
Present == DOMAIN sessions

\* The exact mean of the confidences of a non-empty sequence of entries
RECURSIVE SumConfidence(_)
SumConfidence(entries) ==
    IF entries = <<>> THEN Rat(0, 1)
    ELSE LET r == SumConfidence(Tail(entries))
             c == entries[1].confidence
         IN  Norm(r.num * c.den + c.num * r.den, r.den * c.den)

MeanConfidence(entries) ==
    Norm(SumConfidence(entries).num, SumConfidence(entries).den * Len(entries))

\* C1: after n add_conversation calls since the session was created or last
\* reset, its history is exactly the last min(n, 20) appended entries, in
\* append order; no history is ever longer than 20.
C1_HistoryIsLastAppended ==
    \A k \in Present :
        LET h == sessions[k].conversation_history
            n == Len(appended[k])
        IN  /\ Len(h) = Min(n, 20)
            /\ Len(h) <= 20
            /\ h = SubSeq(appended[k], n - Min(n, 20) + 1, n)

\* C1 witness: more than 20 entries were appended and the oldest are gone
C1_Witness ==
    /\ "A" \in Present
    /\ Len(appended["A"]) > 20
    /\ Len(sessions["A"].conversation_history) = 20
    /\ sessions["A"].conversation_history # SubSeq(appended["A"], 1, 20)

\* C2: after n >= 1 add_conversation calls since the session was created or
\* last reset, total_conversations is n and avg_confidence is the mean of the
\* n confidences, whether or not the history still holds them all.
C2_AverageIsMean ==
    \A k \in Present :
        Len(appended[k]) >= 1 =>
            /\ DOMAIN sessions[k].session_stats = {"total_conversations", "avg_confidence"}
            /\ sessions[k].session_stats["total_conversations"] = Len(appended[k])
            /\ sessions[k].session_stats["avg_confidence"] = MeanConfidence(appended[k])

\* C2 witness: more than 20 appends with differing confidences, so that the
\* mean is not the mean of the retained history
C2_Witness ==
    /\ "A" \in Present
    /\ Len(appended["A"]) > 20
    /\ \E i, j \in 1..Len(appended["A"]) :
          appended["A"][i].confidence # appended["A"][j].confidence
    /\ sessions["A"].session_stats["avg_confidence"]
          # MeanConfidence(sessions["A"].conversation_history)

\* The session's idle time, measured at the latest clock value, exceeds the TTL
IdleExceedsTtl(k) == now - sessions[k].last_accessed > ttl_seconds

\* The keys of the snapshots get_all_sessions() returns
ListedKeys == {get_all_sessions[i].session_id : i \in DOMAIN get_all_sessions}

MutatingOps == {"create_session", "add_conversation", "update_user_preferences",
                "reset_session", "delete_session"}
WriteOps == {"add_conversation", "update_user_preferences", "reset_session"}
ReadOps == {"get_conversation_context", "get_recent_conversations",
            "get_user_preferences", "get_session_info"}

\* The step is a create_session call whose key was not in the store
CreatesNewKey == call'.op = "create_session" /\ call'.ret \notin Present

\* C3: with max_sessions >= 1 the store never holds more than max_sessions
\* sessions, whatever sequence of mutating calls has run.
C3_SizeWithinMax ==
    max_sessions >= 1 => Cardinality(Present) <= max_sessions

\* C3 witness: the store is full although more sessions were created than it
\* can hold and none was removed for expiry
C3_Witness ==
    /\ max_sessions = 2
    /\ Cardinality(Present) = max_sessions
    /\ stats.total_sessions_created > max_sessions
    /\ stats.total_sessions_expired = 0

\* C4: create_session with a new key on a full store in which the sweep finds
\* no expired session removes exactly one session, one whose last_accessed is
\* minimal among the sessions present before the call, and leaves the store
\* at max_sessions sessions.
C4_EvictsLeastRecentlyAccessed ==
    [][(/\ CreatesNewKey
        /\ Cardinality(Present) = max_sessions
        /\ stats'.total_sessions_expired = stats.total_sessions_expired)
       => /\ \E v \in Present :
                /\ DOMAIN sessions' = (Present \ {v}) \cup {call'.ret}
                /\ \A j \in Present :
                      sessions[v].last_accessed <= sessions[j].last_accessed
          /\ Cardinality(DOMAIN sessions') = max_sessions]_vars

\* C4 witness: a third session was created in a store of two, nothing expired,
\* and the session that stayed is one that was accessed again after its creation
C4_Witness ==
    /\ call.op = "create_session"
    /\ max_sessions = 2
    /\ stats.total_sessions_created = 3
    /\ stats.total_sessions_expired = 0
    /\ Len(order) = 2
    /\ order[2] = call.ret
    /\ sessions[order[1]].last_accessed > sessions[order[1]].created_at
    /\ sessions[order[2]].conversation_history = <<>>

\* C5: every call that reads or writes an existing session leaves that
\* session's last_accessed at the current time.
C5_AccessSetsLastAccessed ==
    (call.op \in ReadOps \cup WriteOps /\ call.session_id \in Present)
        => sessions[call.session_id].last_accessed = now

\* C6: with max_sessions = 2 and no expiry, after A was created, then B at a
\* later time, and A was then accessed by a reading or writing call, creating
\* C evicts B and keeps A and C.  A writing access that came after B's last
\* access shows as a larger last_accessed.  The time of a reading access
\* leaves no trace in the state: there the scenario is that A was not written
\* since B was created.
C6_AccessedSessionSurvives ==
    [][(/\ max_sessions = 2
        /\ Len(order) = 2
        /\ sessions[order[1]].created_at < sessions[order[2]].created_at
        /\ call.op \in ReadOps \cup WriteOps
        /\ call.session_id = order[1]
        /\ call.op \in WriteOps =>
              sessions[order[1]].last_accessed > sessions[order[2]].last_accessed
        /\ call.op \in ReadOps =>
              sessions[order[1]].last_accessed < sessions[order[2]].created_at
        /\ CreatesNewKey
        /\ stats'.total_sessions_expired = stats.total_sessions_expired)
       => DOMAIN sessions' = {order[1], call'.ret}]_vars

\* C7 as stated: after any create_session call, whatever its key argument, no
\* session whose idle time exceeded ttl_seconds is listed by get_all_sessions().
C7_SweptByAnyCreate ==
    [][call'.op = "create_session"
       => \A k \in Present : IdleExceedsTtl(k) => k \notin ListedKeys']_vars

\* C7 amended: after a create_session call with no key or with a key that is
\* not in the store, no session whose idle time exceeded ttl_seconds is listed
\* by get_all_sessions().
C7_SweptByCreateOfNewKey ==
    [][CreatesNewKey
       => \A k \in Present : IdleExceedsTtl(k) => k \notin ListedKeys']_vars

\* C7 witness: a create_session call has swept the only other session
C7_Witness ==
    /\ call.op = "create_session"
    /\ Present = {call.ret}
    /\ sessions[call.ret].conversation_history = <<>>
    /\ stats.total_sessions_created = 2
    /\ stats.total_sessions_expired = 1

\* C8 as stated: after any store-mutating call get_all_sessions() returns no
\* session whose idle time exceeds ttl_seconds.  (Checked on the sessions
\* whose idle time already exceeded ttl_seconds when the call began.)
C8_NoExpiredAfterMutation ==
    [][call'.op \in MutatingOps
       => \A k \in Present : IdleExceedsTtl(k) => k \notin ListedKeys']_vars

\* C8 amended: a mutating call that inserts a session (create_session with a
\* new key, add_conversation on an unknown key) leaves no session listed whose
\* idle time exceeded ttl_seconds when the call began; every other mutating
\* call runs no sweep: it expires nothing and removes no session but the one
\* delete_session names.
C8_SweepOnlyOnInsert ==
    [][call'.op \in MutatingOps
       => IF ~(DOMAIN sessions' \subseteq Present)
          THEN \A k \in Present : IdleExceedsTtl(k) => k \notin ListedKeys'
          ELSE /\ stats'.total_sessions_expired = stats.total_sessions_expired
               /\ Present \ DOMAIN sessions'
                     \subseteq (IF call'.op = "delete_session"
                                THEN {call'.session_id} ELSE {})]_vars

\* C8 witness: add_conversation on an unknown key has swept the only other
\* session
C8_Witness ==
    /\ call.op = "add_conversation"
    /\ Present = {call.session_id}
    /\ stats.total_sessions_created = 2
    /\ stats.total_sessions_expired = 1
    /\ stats.total_conversations = 1

\* C9: create_session with a key that is in the store returns that key and
\* changes nothing in the store: no session, no counter.
C9_CreateExistingIsNoOp ==
    [][(call'.op = "create_session" /\ call'.session_id \in Present)
       => /\ call'.ret = call'.session_id
          /\ sessions' = sessions
          /\ order' = order
          /\ stats' = stats]_vars

\* C9 witness: create_session was called with the key of a session that has
\* history and preferences, and they are still there
C9_Witness ==
    /\ call.op = "create_session"
    /\ call.session_id \in Present
    /\ sessions[call.session_id].conversation_history # <<>>
    /\ sessions[call.session_id].user_preferences # EmptyDict
    /\ Cardinality(Present) = 2

\* C10: add_conversation always returns True and adds 1 to
\* total_conversations; on a key that is not in the store it creates the
\* session through create_session (sweep, capacity eviction, creation counter
\* plus 1) and the new session's history is exactly the one new entry.
C10_AddCreatesUnknownSession ==
    [][call'.op = "add_conversation"
       => /\ call'.ret = TRUE
          /\ stats'.total_conversations = stats.total_conversations + 1
          /\ call'.session_id \in DOMAIN sessions'
          /\ call'.session_id \notin Present
                => /\ sessions'[call'.session_id].conversation_history
                         = <<appended'[call'.session_id][1]>>
                   /\ Len(appended'[call'.session_id]) = 1
                   /\ stats'.total_sessions_created = stats.total_sessions_created + 1
                   /\ \A k \in Present : IdleExceedsTtl(k) => k \notin DOMAIN sessions'
                   /\ Cardinality(DOMAIN sessions') <= max_sessions
          /\ call'.session_id \in Present
                => stats'.total_sessions_created = stats.total_sessions_created]_vars

\* C10 witness: add_conversation on an unknown key has created the third
\* session of a store of two, evicting one
C10_Witness ==
    /\ call.op = "add_conversation"
    /\ max_sessions = 2
    /\ stats.total_sessions_created = 3
    /\ stats.total_sessions_expired = 0
    /\ stats.total_conversations = 1
    /\ Len(order) = 2
    /\ order[2] = call.session_id
    /\ Len(sessions[call.session_id].conversation_history) = 1

\* The calls that, on a key that is not in the store, report absence
AbsentKeyOps == ReadOps \cup {"update_user_preferences", "reset_session", "delete_session"}

\* What each of these calls returns for a key that is not in the store
AbsentResult(op) ==
    CASE op = "get_conversation_context" -> <<>>        \* ""
      [] op = "get_recent_conversations" -> <<>>        \* []
      [] op = "get_user_preferences" -> EmptyDict       \* {}
      [] op = "get_session_info" -> <<>>                \* None
      [] OTHER -> FALSE

\* C11: a read, update_user_preferences, reset_session or delete_session on a
\* key that is not in the store returns its empty or failure value ("", [],
\* {}, None, False), creates no session and leaves the session map and the
\* store counters unchanged.
C11_AbsentKeyIsReported ==
    [][(call'.op \in AbsentKeyOps /\ call'.session_id \notin Present)
       => /\ call'.ret = AbsentResult(call'.op)
          /\ sessions' = sessions
          /\ order' = order
          /\ stats' = stats]_vars

\* C11 witness: get_session_info on an unknown key returned None while the
\* store held two other sessions, one of them with a conversation
C11_Witness ==
    /\ call.op = "get_session_info"
    /\ call.session_id \notin Present
    /\ call.ret = <<>>
    /\ Cardinality(Present) = 2
    /\ stats.total_conversations = 1

\* C12: reset_session on an existing session returns True, empties its
\* history, clears its statistics and sets last_accessed to the time read;
\* the session key, created_at, the preferences, every other session, the
\* map's membership and the store counters are unchanged.  The key stays
\* resolvable: a get_session_info that follows returns a snapshot of the
\* empty session, and an add_conversation on a session with cleared
\* statistics leaves total_conversations = 1 and avg_confidence = the new
\* entry's confidence.
C12_ResetClearsInPlace ==
    [][/\ (call'.op = "reset_session" /\ call'.session_id \in Present)
          => LET k == call'.session_id
             IN  /\ call'.ret = TRUE
                 /\ DOMAIN sessions' = Present
                 /\ order' = order
                 /\ stats' = stats
                 /\ sessions'[k].conversation_history = <<>>
                 /\ sessions'[k].session_stats = EmptyDict
                 /\ sessions'[k].last_accessed = now'
                 /\ sessions'[k].session_id = k
                 /\ sessions'[k].created_at = sessions[k].created_at
                 /\ sessions'[k].user_preferences = sessions[k].user_preferences
                 /\ \A j \in Present \ {k} : sessions'[j] = sessions[j]
       /\ (/\ call.op = "reset_session" /\ call.ret = TRUE
           /\ call'.op = "get_session_info" /\ call'.session_id = call.session_id)
          => /\ call'.ret # <<>>
             /\ call'.ret[1].session_id = call.session_id
             /\ call'.ret[1].total_conversations = 0
             /\ call'.ret[1].stats = EmptyDict
             /\ call'.ret[1].created_at = IsoFormat(sessions[call.session_id].created_at)
       /\ (/\ call'.op = "add_conversation" /\ call'.session_id \in Present
           /\ sessions[call'.session_id].session_stats = EmptyDict
           /\ Len(appended[call'.session_id]) = 0)
          => LET k == call'.session_id
             IN  /\ sessions'[k].session_stats["total_conversations"] = 1
                 /\ sessions'[k].session_stats["avg_confidence"]
                       = appended'[k][1].confidence
                 /\ Len(sessions'[k].conversation_history) = 1]_vars

\* C12 witness: a session that held two conversations, averaging 2/5, and
\* preferences was reset at a time after its creation, next to a session
\* that holds one conversation; then one conversation of confidence 4/5 was
\* added to it
C12_Witness ==
    /\ call.op = "add_conversation"
    /\ Present = {"A", "B"}
    /\ stats.total_sessions_created = 2
    /\ stats.total_conversations = 4
    /\ Len(sessions["B"].conversation_history) = 1
    /\ call.session_id = "A"
    /\ sessions["A"].session_stats =
          [total_conversations |-> 1, avg_confidence |-> Rat(4, 5)]
    /\ sessions["A"].user_preferences # EmptyDict
    /\ sessions["A"].created_at < sessions["A"].last_accessed

\* C13: when the concurrent add_conversation calls have all returned, every
\* session's total_conversations equals the number of entries appended to it
\* since it was created, its avg_confidence is the mean of their confidences
\* and its history holds the appended entries (the last 20): no update of
\* the counter, the running average or the history is lost.
C13_ConcurrentAppendsSerialize ==
    Quiescent =>
        \A k \in Present :
            LET n == Len(appended[k])
            IN  n > 0 =>
                  /\ sessions[k].session_stats["total_conversations"] = n
                  /\ sessions[k].session_stats["avg_confidence"] = MeanConfidence(appended[k])
                  /\ sessions[k].conversation_history
                        = SubSeq(appended[k], n - Min(n, HistoryMaxLen) + 1, n)

\* C14: when the concurrent create_session calls with distinct new keys have
\* all returned, the store holds at most max_sessions sessions.
C14_ConcurrentCreatesWithinMax ==
    Quiescent => Cardinality(Present) <= max_sessions

\* The corpus is loaded and its three lists are aligned
WellFormedCorpus ==
    /\ retriever.corpus # <<>>
    /\ Len(retriever.corpus) = Len(retriever.embeddings)
    /\ Len(retriever.corpus) = Len(retriever.answers)

\* The index of the corpus entry a returned (question, answer) pair is from
EntryOf(pair) == CHOOSE i \in 1..Len(retriever.corpus) : retriever.corpus[i] = pair[1]

\* The entries a retrieve_top_k call returned, as their indices, in order
Returned == [i \in 1..Len(call.ret) |-> EntryOf(call.ret[i])]

\* The last call was a retrieve_top_k on an aligned corpus whose query was
\* embedded
Answered == call.op = "retrieve_top_k" /\ WellFormedCorpus /\ call.embedded

\* C15: retrieve_top_k returns at most k pairs, each the (question, answer)
\* of a corpus entry scoring >= threshold (a score equal to the threshold is
\* kept), and the entries returned are exactly those of some k highest-scoring
\* entries whose score is >= threshold.
C15_TopKAboveThreshold ==
    Answered =>
        LET n == Len(retriever.corpus)
            R == {Returned[i] : i \in 1..Len(call.ret)}
        IN  /\ Len(call.ret) <= call.k
            /\ Cardinality(R) = Len(call.ret)
            /\ \A i \in 1..Len(call.ret) :
                  /\ call.ret[i] = <<retriever.corpus[Returned[i]],
                                     retriever.answers[Returned[i]]>>
                  /\ call.scores[Returned[i]] >= call.threshold
            /\ \E T \in SUBSET (1..n) :
                  /\ Cardinality(T) = Min(call.k, n)
                  /\ \A i \in T, j \in (1..n) \ T : call.scores[i] >= call.scores[j]
                  /\ R = {i \in T : call.scores[i] >= call.threshold}

\* C15 witness: the two entries score 0.1 and 0.9; with k = 3 and threshold
\* 0.55 exactly the entry scoring 0.9 is returned
C15_Witness ==
    /\ Answered
    /\ call.scores = <<10, 90>>
    /\ call.k = 3
    /\ call.threshold = 55
    /\ call.ret = <<<<"Q2", "a2">>>>

\* C16: the list retrieve_top_k returns is in order of non-increasing score.
C16_SortedByScore ==
    Answered =>
        \A i, j \in 1..Len(call.ret) :
            i < j => call.scores[Returned[i]] >= call.scores[Returned[j]]

\* C16 witness: two entries stored in the order of increasing score were
\* both returned, the higher-scoring one first
C16_Witness ==
    /\ Answered
    /\ call.scores = <<55, 90>>
    /\ call.k >= 2
    /\ call.ret = <<<<"Q2", "a2">>, <<"Q1", "a1">>>>

\* The three lists of the loaded corpus differ in length
MalformedCorpus ==
    \/ Len(retriever.corpus) # Len(retriever.embeddings)
    \/ Len(retriever.corpus) # Len(retriever.answers)

\* C17: retrieve_top_k returns [] when the embedder fails, when the loaded
\* corpus is malformed (lists of unequal length) and when the corpus is
\* empty.
C17_FailureGivesEmptyList ==
    call.op = "retrieve_top_k" =>
        ((~call.embedded \/ MalformedCorpus \/ retriever.corpus = <<>>)
            => call.ret = <<>>)

\* C18: when the vector store file could not be loaded (missing or corrupt),
\* no retrieve_top_k call is answered.
C18_NoServiceWithoutCorpus ==
    retriever.vector_store.status # "ok" => call.op # "retrieve_top_k"

\* C19: get_recent_conversations(count), count >= 0, returns the last
\* min(count, len(history)) entries of the history in chronological order:
\* none for count = 0, the whole history for count > len(history).
C19_RecentIsLastCount ==
    (call.op = "get_recent_conversations" /\ call.session_id \in Present /\ call.count >= 0)
        => LET h == sessions[call.session_id].conversation_history
               m == Min(call.count, Len(h))
           IN  call.ret = SubSeq(h, Len(h) - m + 1, Len(h))

\* The number of conversations recorded for a session since its creation or
\* last reset, as its statistics count them
RecordedConversations(k) ==
    IF "total_conversations" \in DOMAIN sessions[k].session_stats
    THEN sessions[k].session_stats["total_conversations"] ELSE 0

\* C20: the total conversation count in the snapshot of get_session_info and
\* get_all_sessions is the cumulative number of conversations recorded for
\* the session since creation or last reset (session_stats.total_conversations),
\* also after more than 20 conversations.
C20_SnapshotCountsAllConversations ==
    /\ (call.op = "get_session_info" /\ call.session_id \in Present)
          => call.ret[1].total_conversations = RecordedConversations(call.session_id)
    /\ \A i \in DOMAIN get_all_sessions :
          get_all_sessions[i].total_conversations
             = RecordedConversations(get_all_sessions[i].session_id)

\* C21: every session has last_accessed >= created_at; a session that a call
\* has just put into the store has created_at and last_accessed both equal to
\* one time of that call; while a session stays in the store its last_accessed
\* never decreases and its created_at never changes.
C21_TimestampsOrdered ==
    [][/\ \A k \in DOMAIN sessions' :
             sessions'[k].last_accessed >= sessions'[k].created_at
       /\ \A k \in DOMAIN sessions' \ Present :
             call'.op = "create_session" =>
                /\ sessions'[k].created_at = sessions'[k].last_accessed
                /\ now <= sessions'[k].created_at
                /\ sessions'[k].created_at <= now'
       /\ \A k \in DOMAIN sessions' \cap Present :
             /\ sessions'[k].last_accessed >= sessions[k].last_accessed
             /\ sessions'[k].created_at = sessions[k].created_at]_vars

\* What of C21 does not depend on the two timestamps of a new session being
\* one clock reading
C21_TimestampsMonotone ==
    [][/\ \A k \in DOMAIN sessions' :
             sessions'[k].last_accessed >= sessions'[k].created_at
       /\ \A k \in DOMAIN sessions' \ Present :
             /\ now <= sessions'[k].created_at
             /\ sessions'[k].last_accessed <= now'
       /\ \A k \in DOMAIN sessions' \cap Present :
             /\ sessions'[k].last_accessed >= sessions[k].last_accessed
             /\ sessions'[k].created_at = sessions[k].created_at]_vars

\* C22: a /chat request that does not end with a response (the generator
\* raised, no generator is configured, the query is blank) leaves
\* total_conversations, and the history and statistics of every session that
\* was in the store and still is, as they were; a session the request has
\* created is empty, and the session the request names is neither created nor
\* changed.  A request that returns a response with memory enabled appends
\* exactly one entry to the session of the returned session_id, and the
\* entry's source and confidence are the response's.
C22_RecordedOnlyOnSuccess ==
    [][call'.op = "chat" =>
        /\ call'.status # 200 =>
              /\ stats'.total_conversations = stats.total_conversations
              /\ \A k \in DOMAIN sessions' \cap Present :
                    /\ sessions'[k].conversation_history = sessions[k].conversation_history
                    /\ sessions'[k].session_stats = sessions[k].session_stats
              /\ \A k \in DOMAIN sessions' \ Present :
                    /\ sessions'[k].conversation_history = <<>>
                    /\ sessions'[k].session_stats = EmptyDict
              /\ ~Falsy(call'.req.session_id) => sessions' = sessions
        /\ (call'.status = 200 /\ call'.req.memory_enabled) =>
              LET r == call'.response[1]
                  k == r.session_id
                  before == IF k \in Present THEN appended[k] ELSE <<>>
                  h == sessions'[k].conversation_history
              IN  /\ k \in DOMAIN sessions'
                  /\ Len(appended'[k]) = Len(before) + 1
                  /\ SubSeq(appended'[k], 1, Len(before)) = before
                  /\ appended'[k][Len(before) + 1].source = r.source
                  /\ appended'[k][Len(before) + 1].confidence = r.confidence
                  /\ appended'[k][Len(before) + 1].bot_response = r.response
                  /\ h[Len(h)] = appended'[k][Len(before) + 1]
                  /\ sessions'[k].session_stats["total_conversations"] = Len(before) + 1
                  /\ stats'.total_conversations = stats.total_conversations + 1
                  /\ \A j \in (DOMAIN sessions' \cap Present) \ {k} :
                        sessions'[j] = sessions[j]]_vars

\* C22 witness: the generator raised in a request on a session that already
\* holds the entry of an earlier request that was answered without a match
C22_Witness ==
    /\ call.op = "chat"
    /\ call.generator = "raised"
    /\ call.req.session_id \in Present
    /\ call.req.memory_enabled
    /\ stats.total_conversations = 1
    /\ Len(sessions[call.req.session_id].conversation_history) = 1
    /\ sessions[call.req.session_id].conversation_history[1].source = "no_matches"
    /\ sessions[call.req.session_id].conversation_history[1].confidence = Rat(0, 1)

\* The sessions a call has removed, and the number its sweep has counted
Removed == Present \ DOMAIN sessions'
SweptCount == stats'.total_sessions_expired - stats.total_sessions_expired

\* The sessions whose idle time exceeds the TTL by the clock at the start and
\* at the end of a call: every is_expired of the call reads a time in between
ExpiredAtStart == {k \in Present : now - sessions[k].last_accessed > ttl_seconds}
ExpiredAtEnd == {k \in Present : now' - sessions[k].last_accessed > ttl_seconds}

\* C23: is_expired is strict.  The sweep of a create_session call with a new
\* key removes every session whose idle time exceeds ttl_seconds and only
\* such sessions: a session idle for ttl_seconds or less leaves the store only
\* as the one session the capacity check evicts after the sweep.
C23_SweepIsStrict ==
    [][CreatesNewKey =>
        /\ ExpiredAtStart \subseteq Removed
        /\ Cardinality(ExpiredAtStart) <= SweptCount
        /\ SweptCount <= Cardinality(ExpiredAtEnd)
        /\ Cardinality(Removed) <= SweptCount + 1
        /\ Cardinality(Removed \ ExpiredAtEnd) <= 1
        /\ Removed \ ExpiredAtEnd # {} =>
              /\ Cardinality(Removed) = SweptCount + 1
              /\ Cardinality(Present) - SweptCount >= max_sessions]_vars

\* C23 witness: with ttl_seconds = 0 a create_session call at time 1 has kept
\* a session accessed at time 1, idle for exactly ttl_seconds, in a store from
\* which one session was swept
C23_Witness ==
    /\ call.op = "create_session"
    /\ ttl_seconds = 0
    /\ max_sessions = 2
    /\ stats.total_sessions_created = 3
    /\ stats.total_sessions_expired = 1
    /\ Len(order) = 2
    /\ order[2] = call.ret
    /\ sessions[order[2]].created_at = 1
    /\ sessions[order[1]].last_accessed = 1

\* C24: in a create_session call with a new key the sweep comes before the
\* capacity check.  When the store holds at most max_sessions sessions and one
\* of them is expired, the call removes every expired session, every session
\* it removes is expired and counted as expired, and none is evicted.  A
\* session that is not expired is evicted only if at least max_sessions
\* sessions are left after the sweep.
C24_SweepBeforeCapacity ==
    [][CreatesNewKey =>
        /\ (Cardinality(Present) <= max_sessions /\ ExpiredAtStart # {}) =>
              /\ ExpiredAtStart \subseteq Removed
              /\ Removed \subseteq ExpiredAtEnd
              /\ SweptCount = Cardinality(Removed)
        /\ Removed \ ExpiredAtEnd # {} =>
              Cardinality(Present) - SweptCount >= max_sessions]_vars

\* C24 witness: a create_session call on a full store of two expired sessions
\* has swept both and evicted none
C24_Witness ==
    /\ call.op = "create_session"
    /\ max_sessions = 2
    /\ stats.total_sessions_created = 3
    /\ stats.total_sessions_expired = 2
    /\ Present = {call.ret}

\* C25: concurrent first references to one unknown key create its session
\* once: no create_session, called directly or by add_conversation, inserts a
\* UserSession under a key that is in the store, which would replace the
\* session inserted first together with the entries recorded in it.
C25_CreatedOnce ==
    [][\A t \in Threads :
          (threads[t].pc = "cs_insert" /\ threads'[t].pc = "cs_created_load")
              => threads[t].session_id \notin Present]_vars

\* C26: no create_session or add_conversation call of concurrent callers
\* ends with an exception.
C26_NoCallRaises ==
    call.op \in {"create_session", "add_conversation"} => ~call.raised

\* C27: the snapshot a get_session_info call returned is a point-in-time
\* view: an add_conversation, update_user_preferences or reset_session call
\* on the session leaves what the holder of the snapshot reads in it as it
\* was, and a write of the holder to the snapshot leaves the session as it was.
C27_SnapshotIsImmutable ==
    [][/\ (/\ held.op = "get_session_info"
           /\ call'.op \in WriteOps
           /\ call'.session_id = held.session_id) => HeldValue' = HeldValue
       /\ (held.op = "get_session_info" /\ call'.op = "modify_held")
             => sessions' = sessions]_vars

\* C28: update_user_preferences on a session that is in the store gives every
\* key of the given map the given value and leaves the other keys as they
\* were, sets last_accessed to the time of the call, changes neither the
\* history nor the statistics nor anything else in the store, and returns
\* True; get_user_preferences returns the session's map, and a write to the
\* returned map changes the returned map only.
C28_PreferencesMergeAndCopy ==
    [][/\ (call'.op = "update_user_preferences" /\ call'.session_id \in Present) =>
             LET k == call'.session_id
                 old == sessions[k].user_preferences
                 p == call'.preferences
             IN  /\ call'.ret = TRUE
                 /\ DOMAIN sessions'[k].user_preferences = DOMAIN old \cup DOMAIN p
                 /\ \A x \in DOMAIN p : sessions'[k].user_preferences[x] = p[x]
                 /\ \A x \in DOMAIN old \ DOMAIN p :
                       sessions'[k].user_preferences[x] = old[x]
                 /\ sessions'[k].last_accessed = now'
                 /\ sessions' = [sessions EXCEPT
                                   ![k].user_preferences = sessions'[k].user_preferences,
                                   ![k].last_accessed = now']
                 /\ stats' = stats
                 /\ order' = order
       /\ (call'.op = "get_user_preferences" /\ call'.session_id \in Present) =>
             /\ call'.ret = sessions[call'.session_id].user_preferences
             /\ sessions' = sessions
       /\ (call'.op = "modify_held" /\ held.op = "get_user_preferences") =>
             /\ sessions' = sessions
             /\ HeldValue' = (call'.key :> call'.val) @@ HeldValue]_vars

\* C28 witness: an update that names one of two keys has overwritten it and
\* kept the other, on a session with history, while the caller holds a map it
\* got earlier and has changed since
C28_Witness ==
    /\ call.op = "update_user_preferences"
    /\ call.ret = TRUE
    /\ call.preferences = ("lang" :> "hi")
    /\ sessions["A"].user_preferences = ("lang" :> "hi") @@ ("line" :> "en")
    /\ sessions["A"].conversation_history # <<>>
    /\ held.op = "get_user_preferences"
    /\ HeldValue = ("lang" :> "en") @@ ("line" :> "hi")

\* The text a get_conversation_context call returned is, line by line, the
\* header, the query and the response of each of the last min(count,
\* len(history)) entries in chronological order, and the empty line the
\* closing line break leaves
ContextIsOfLastCount ==
    LET h == sessions[call.session_id].conversation_history
        m == Min(call.count, Len(h))
        last == SubSeq(h, Len(h) - m + 1, Len(h))
    IN  /\ Len(call.ret) = 2 * m + 2
        /\ call.ret[1] = "Recent conversation context:"
        /\ \A i \in 1..m : /\ call.ret[2 * i] = last[i].user_query
                           /\ call.ret[2 * i + 1] = last[i].bot_response
        /\ call.ret[2 * m + 2] = ""

\* C29: get_conversation_context(count), count >= 0, returns the empty
\* string exactly when the session has no history, and otherwise the header
\* line followed by the query line and the response line of each of the last
\* min(count, len(history)) entries, in chronological order.
C29_ContextOfLastCount ==
    (call.op = "get_conversation_context" /\ call.session_id \in Present /\ call.count >= 0)
        => LET h == sessions[call.session_id].conversation_history
           IN  /\ call.ret = <<>> <=> h = <<>>
               /\ h # <<>> => ContextIsOfLastCount

\* What of C29 holds of the code: the same for count >= 1
C29_ContextOfPositiveCount ==
    (call.op = "get_conversation_context" /\ call.session_id \in Present /\ call.count >= 1)
        => LET h == sessions[call.session_id].conversation_history
           IN  /\ call.ret = <<>> <=> h = <<>>
               /\ h # <<>> => ContextIsOfLastCount

\* C30: after every call, get_memory_stats().active_sessions is the number
\* of sessions in the map; total_sessions_created, total_sessions_expired and
\* total_conversations never decrease; total_sessions_expired grows only in a
\* call that inserts a session, and by no more than the number of sessions
\* the call removed that are expired: an eviction or a delete_session is not
\* counted; and total_sessions_created >= active_sessions +
\* total_sessions_expired.
C30_StatsConsistent ==
    [][/\ call'.op = "get_memory_stats" =>
             /\ call'.ret.active_sessions = Cardinality(DOMAIN sessions')
             /\ call'.ret.total_sessions_created = stats'.total_sessions_created
             /\ call'.ret.total_sessions_expired = stats'.total_sessions_expired
             /\ call'.ret.total_conversations = stats'.total_conversations
       /\ stats'.total_sessions_created >= stats.total_sessions_created
       /\ stats'.total_sessions_expired >= stats.total_sessions_expired
       /\ stats'.total_conversations >= stats.total_conversations
       /\ SweptCount > 0 =>
             /\ call'.op \in {"create_session", "add_conversation"}
             /\ DOMAIN sessions' \ Present # {}
       /\ SweptCount <= Cardinality(Removed \cap ExpiredAtEnd)
       /\ Removed \ ExpiredAtEnd # {} => SweptCount = Cardinality(Removed) - 1
       /\ call'.op \in {"delete_session", "reset_session"} => stats' = stats
       /\ stats'.total_sessions_created
             >= Cardinality(DOMAIN sessions') + stats'.total_sessions_expired]_vars

\* C30 witness: get_memory_stats on a store of one session after three were
\* created, of which one was swept and one left the store uncounted
C30_Witness ==
    /\ call.op = "get_memory_stats"
    /\ call.ret.active_sessions = 1
    /\ call.ret.total_sessions_created = 3
    /\ call.ret.total_sessions_expired = 1
    /\ Cardinality(Present) = 1
\* The session is as UserSession's constructor leaves it
Fresh(session) ==
    /\ session.conversation_history = <<>>
    /\ session.session_stats = EmptyDict
    /\ session.user_preferences = EmptyDict

\* C31: delete_session on a key in the store returns True and removes that
\* session and no other, leaving the counters and the clock alone;
\* delete_session on a key that is not in the store (a second delete)
\* returns False and changes nothing; a read of such a key returns its empty
\* value; create_session on such a key inserts a session with empty history,
\* statistics and preferences, and add_conversation on such a key leaves a
\* session that holds the new entry only, statistics of that one entry and
\* no preferences.
C31_PresenceCycle ==
    [][/\ (call'.op = "delete_session" /\ call'.session_id \in Present)
          => /\ call'.ret = TRUE
             /\ DOMAIN sessions' = Present \ {call'.session_id}
             /\ \A k \in DOMAIN sessions' : sessions'[k] = sessions[k]
             /\ order' = Without(order, {call'.session_id})
             /\ stats' = stats
             /\ now' = now
       /\ (call'.op = "delete_session" /\ call'.session_id \notin Present)
          => /\ call'.ret = FALSE
             /\ sessions' = sessions /\ order' = order /\ stats' = stats
       /\ (call'.op \in ReadOps /\ call'.session_id \notin Present)
          => /\ call'.ret = AbsentResult(call'.op)
             /\ sessions' = sessions /\ order' = order /\ stats' = stats
       /\ (call'.op = "create_session" /\ call'.ret \notin Present)
          => /\ call'.ret \in DOMAIN sessions'
             /\ Fresh(sessions'[call'.ret])
             /\ sessions'[call'.ret].created_at >= now
       /\ (call'.op = "add_conversation" /\ call'.session_id \notin Present)
          => /\ call'.session_id \in DOMAIN sessions'
             /\ Len(sessions'[call'.session_id].conversation_history) = 1
             /\ sessions'[call'.session_id].conversation_history
                   = appended'[call'.session_id]
             /\ sessions'[call'.session_id].conversation_history[1].timestamp >= now
             /\ sessions'[call'.session_id].session_stats["total_conversations"] = 1
             /\ sessions'[call'.session_id].user_preferences = EmptyDict
             /\ sessions'[call'.session_id].created_at >= now]_vars

\* C31 witness: "A" held a conversation, was deleted (nothing else removes a
\* session here: no TTL sweep has removed one and two keys never fill a store
\* of two), and an add_conversation has left a new "A" with one entry and no
\* preferences, while "B" stayed in the store
C31_Witness ==
    /\ call.op = "add_conversation"
    /\ max_sessions = 2
    /\ stats.total_sessions_expired = 0
    /\ stats.total_sessions_created = 3
    /\ stats.total_conversations = 2
    /\ Present = {"A", "B"}
    /\ Len(sessions["A"].conversation_history) = 1
    /\ sessions["A"].session_stats["total_conversations"] = 1
    /\ sessions["A"].user_preferences = EmptyDict

\* C32: expiry takes effect only in the sweep.  A read of a session that
\* is in the store and idle for more than ttl_seconds returns the session's
\* data (the whole history when it is no longer than count, the preferences,
\* a snapshot) and removes nothing.  An add_conversation,
\* update_user_preferences or reset_session on a session that is idle for
\* more than ttl_seconds when the call reads the clock returns True, removes
\* nothing and sets last_accessed to the time read, so the session is no
\* longer expired; add_conversation keeps the earlier entries before the new
\* one and update_user_preferences keeps the history.  The sweep of a later
\* create_session leaves alone every session written at most ttl_seconds
\* before: such a session leaves the store only as the one session the
\* capacity check evicts.
C32_ExpiryIsLazy ==
    [][/\ (call'.op \in ReadOps /\ call'.session_id \in ExpiredAtStart) =>
            LET session == sessions[call'.session_id]
            IN  /\ sessions' = sessions /\ order' = order /\ stats' = stats
                /\ call'.op = "get_recent_conversations" =>
                      (Len(session.conversation_history) <= call'.count
                          => call'.ret = session.conversation_history)
                /\ call'.op = "get_conversation_context" =>
                      (session.conversation_history # <<>> /\ call'.count > 0
                          => call'.ret # <<>>)
                /\ call'.op = "get_user_preferences" =>
                      call'.ret = session.user_preferences
                /\ call'.op = "get_session_info" =>
                      /\ Len(call'.ret) = 1
                      /\ call'.ret[1].session_id = call'.session_id
                      /\ call'.ret[1].total_conversations
                            = Len(session.conversation_history)
       /\ (call'.op \in WriteOps /\ call'.session_id \in ExpiredAtEnd) =>
            LET old == sessions[call'.session_id]
                new == sessions'[call'.session_id]
            IN  /\ call'.ret = TRUE
                /\ DOMAIN sessions' = Present
                /\ order' = order
                /\ stats'.total_sessions_expired = stats.total_sessions_expired
                /\ new.last_accessed = now'
                /\ new.last_accessed >= now
                /\ ~(now' - new.last_accessed > ttl_seconds)
                /\ new.created_at = old.created_at
                /\ call'.op = "add_conversation" =>
                      /\ Len(new.conversation_history)
                            = Len(old.conversation_history) + 1
                      /\ SubSeq(new.conversation_history, 1,
                                Len(old.conversation_history))
                            = old.conversation_history
                      /\ new.user_preferences = old.user_preferences
                /\ call'.op = "update_user_preferences" =>
                      /\ new.conversation_history = old.conversation_history
                      /\ new.session_stats = old.session_stats
                /\ call'.op = "reset_session" =>
                      /\ new.conversation_history = <<>>
                      /\ new.user_preferences = old.user_preferences
       /\ CreatesNewKey =>
            \A k \in Present \ ExpiredAtEnd :
                /\ k \in DOMAIN sessions' => sessions'[k] = sessions[k]
                /\ k \notin DOMAIN sessions' =>
                      /\ Cardinality(Removed) = SweptCount + 1
                      /\ Cardinality(Present) - SweptCount >= max_sessions]_vars

\* C32 witness: with ttl_seconds = 0, "A" had one conversation and
\* last_accessed = 0 when its snapshot was taken; a second add_conversation
\* at time 1 found it idle for longer than the TTL; the create_session of
\* another key that followed, at time 1, swept nothing, and "A" is in the
\* store with both conversations
C32_Witness ==
    /\ call.op = "create_session"
    /\ call.ret # "A"
    /\ ttl_seconds = 0
    /\ max_sessions = 2
    /\ stats.total_sessions_created = 2
    /\ stats.total_sessions_expired = 0
    /\ stats.total_conversations = 2
    /\ sessions[call.ret].created_at = 1
    /\ "A" \in Present
    /\ held.op = "get_session_info"
    /\ held.value.last_accessed = IsoFormat(0)
    /\ held.value.total_conversations = 1
    /\ sessions["A"].user_preferences = EmptyDict
    /\ Len(sessions["A"].conversation_history) = 2
    /\ sessions["A"].conversation_history[1].timestamp = 0
    /\ sessions["A"].conversation_history[2].timestamp = 1
    /\ sessions["A"].last_accessed = 1

\* What a retrieve_top_k call was given: the outcome of embed_query, the
\* scores, the order argsort put them in, k and the threshold
RetrievalInput(c) ==
    [embedded |-> c.embedded, scores |-> c.scores, asc |-> c.asc, k |-> c.k,
     threshold |-> c.threshold]

\* C33: a retrieve_top_k call, whether it returns pairs, an empty list or
\* fails, leaves the module's corpus, embeddings and answers as they are, and
\* they are what the import loaded from the vector store file; so a call
\* that follows another with the same query, k and threshold (the same
\* embedding outcome, scores and sort order) returns the same list.
C33_CorpusIsReadOnly ==
    [][call'.op = "retrieve_top_k" =>
        /\ retriever' = retriever
        /\ retriever' = module_init(retriever.vector_store)
        /\ (call.op = "retrieve_top_k" /\ RetrievalInput(call') = RetrievalInput(call))
              => call'.ret = call.ret]_vars

\* C33 witness: a call has returned the higher-scoring of the two entries of
\* the corpus, and both entries are still in the three lists
C33_Witness ==
    /\ call.op = "retrieve_top_k"
    /\ call.embedded
    /\ call.scores = <<90, 55>>
    /\ call.k = 1
    /\ call.ret = <<<<"Q1", "a1">>>>
    /\ retriever.corpus = <<"Q1", "Q2">>
    /\ retriever.embeddings = <<"e1", "e2">>
    /\ retriever.answers = <<"a1", "a2">>
    /\ retriever.vector_store.corpus = retriever.corpus

\* The keys of the cache, before and after the call
CacheKeySet == od_keys(conversation_cache.cache)
CacheKeySetAfter == od_keys(conversation_cache'.cache)

\* The two maps have the same keys, no key is twice in the cache and the
\* cache holds at most max_size entries
CacheInStep(c) ==
    /\ od_keys(c.cache) = DOMAIN c.timestamps
    /\ Cardinality(od_keys(c.cache)) = Len(c.cache)
    /\ Len(c.cache) <= c.max_size

\* The keys _cleanup_expired removes when it reads the time t
CacheExpiredAt(t) ==
    {k \in CacheKeySet :
        t - conversation_cache.timestamps[k] > conversation_cache.ttl_seconds}

\* The keys a set call keeps or adds before it looks at the size
CacheKept == (CacheKeySet \ CacheExpiredAt(call'.current_time)) \cup {call'.key}

\* The least recently used of the keys in CacheKept, the key being set
\* counting as the most recently used
CacheLru ==
    LET others == SelectSeq(cache_log.recency,
                            LAMBDA k : k \in CacheKept /\ k # call'.key)
    IN  IF others = <<>> THEN call'.key ELSE others[1]

\* C34: the cache and timestamps maps of a ConversationCache have the same
\* keys and the cache never holds more than max_size entries, whatever get,
\* set, clear, size and keys calls have run.  A set that leaves more than
\* max_size entries after its cleanup removes exactly one of them, the one
\* whose last set or successful get is the oldest, which is not the key being
\* set when max_size >= 1; otherwise it removes nothing but the expired
\* entries.  A get of a key whose last set is more than ttl_seconds before
\* the time the get reads returns None; a get of a key that is in the cache
\* and not expired returns its value; and a get changes no timestamp, so
\* only a set restarts an entry's TTL.
C34_CacheInStepAndLru ==
    [][/\ CacheInStep(conversation_cache)
       /\ CacheInStep(conversation_cache')
       /\ od_list(conversation_cache'.cache) = cache_log'.recency
       /\ call'.op = "cache_set" =>
            /\ IF Cardinality(CacheKept) > conversation_cache.max_size
               THEN /\ CacheKeySetAfter = CacheKept \ {CacheLru}
                    /\ Cardinality(CacheKept) = conversation_cache.max_size + 1
                    /\ conversation_cache.max_size >= 1 => call'.key \in CacheKeySetAfter
               ELSE CacheKeySetAfter = CacheKept
            /\ call'.key \in CacheKeySetAfter =>
                  /\ od_item(conversation_cache'.cache, call'.key) = call'.value
                  /\ conversation_cache'.timestamps[call'.key] >= call'.current_time
                  /\ conversation_cache'.timestamps[call'.key] <= now'
            /\ \A k \in CacheKeySetAfter \ {call'.key} :
                  /\ od_item(conversation_cache'.cache, k)
                        = od_item(conversation_cache.cache, k)
                  /\ conversation_cache'.timestamps[k] = conversation_cache.timestamps[k]
       /\ call'.op = "cache_get" =>
            /\ (call'.key \in DOMAIN cache_log.last_set
                  /\ now' - cache_log.last_set[call'.key] > conversation_cache.ttl_seconds)
                  => /\ call'.ret = None
                     /\ call'.key \notin CacheKeySetAfter
            /\ call'.key \in CacheKeySet \ CacheExpiredAt(now') =>
                  call'.ret = od_item(conversation_cache.cache, call'.key)
            /\ call'.key \notin CacheKeySet => call'.ret = None
            /\ CacheKeySetAfter = CacheKeySet \ CacheExpiredAt(now')
            /\ \A k \in CacheKeySetAfter :
                  /\ conversation_cache'.timestamps[k] = conversation_cache.timestamps[k]
                  /\ conversation_cache'.timestamps[k] = cache_log.last_set[k]]_vars

\* C34 witness: with max_size = 2 and a TTL that nothing outlives here,
\* "context_A" was set at time 0 and "context_B" at time 1; the set of
\* "context_C" has removed "context_B", because a get had made "context_A"
\* the more recently used of the two
C34_Witness ==
    /\ call.op = "cache_set"
    /\ call.key = "context_C"
    /\ conversation_cache.max_size = 2
    /\ conversation_cache.ttl_seconds = 1
    /\ od_list(conversation_cache.cache) = <<"context_A", "context_C">>
    /\ conversation_cache.timestamps["context_A"] = 0
    /\ "context_B" \in DOMAIN cache_log.last_set
    /\ cache_log.last_set["context_A"] = 0
    /\ cache_log.last_set["context_B"] = 1

====
